---- MODULE Spec2Model ----
(***************************************************************************)
(* Verification model of the deep-wallwars engine: the Board (gamestate),  *)
(* the move notation and padding (engine_adapter), the evaluators, the     *)
(* MCTS, and the Bot Game Session layer (bgs_session).                     *)
(***************************************************************************)
EXTENDS Integers, Sequences, FiniteSets, TLC

VARIABLES
    board,      \* SpecBoard: the Board under play
    turn,       \* SpecBoard: the Turn about to act
    nactions,   \* SpecBoard: number of actions done so far
    sessions,   \* SessionManager::m_sessions: bgs_id -> optional BgsSession
    reqs,       \* the requests in flight: the position of each handler
    resp,       \* the response line written by the last step, if any
    cache,      \* CachedPolicy: key -> optional cached evaluation
    inflight,   \* CachedPolicy: key -> optional evaluation in progress
    searchers,  \* the tasks that ask the CachedPolicy
    underlying, \* evaluations of the wrapped evaluator: started, running
    request_queue, \* BatchedModel: the request queue
    drawn,      \* BatchedModel: the batch the coordinator is filling
    instances,  \* BatchedModel: the batch each model instance runs
    dispatches, \* BatchedModel: number of batches dispatched
    callers,    \* the tasks that call BatchedModel::inference
    sampling,   \* MCTS::sample: the call in progress and the root's count
    validated,  \* the last call of a validation function and its result
    stdin,      \* the lines of standard input and how many on_line has read
    last_call,  \* the last call of an operation of the Board
    policy_call, \* the last call of an evaluator and the edges it returned
    padding,    \* a padding configuration and the last transform done with it
    rendering,  \* the last move rendered, translated and parsed
    pool        \* the thread pool of main: its threads, its queue, the handlers

vars == <<board, turn, nactions, sessions, reqs, resp,
          cache, inflight, searchers, underlying,
          request_queue, drawn, instances, dispatches, callers, sampling,
          validated, stdin, last_call, policy_call, padding, rendering, pool>>
boardVars == <<board, turn, nactions>>
sessionVars == <<sessions, reqs, resp>>
cacheVars == <<cache, inflight, searchers, underlying>>
batchVars == <<request_queue, drawn, instances, dispatches, callers>>
evalVars == <<cacheVars, batchVars, sampling, validated, stdin, last_call,
             policy_call, padding, rendering, pool>>

-----------------------------------------------------------------------------
(* Bounds of the model *)

Cols == 3
Rows == 3
MaxActions == 3

-----------------------------------------------------------------------------
(* gamestate.hpp / gamestate.cpp : basic types *)

\* std::optional: the empty sequence for std::nullopt, <<x>> for a value
None == <<>>
Some(x) == <<x>>

SeqMap(f(_), s) == [i \in 1..Len(s) |-> f(s[i])]
Range(s) == {s[i] : i \in 1..Len(s)}

Min(a, b) == IF a < b THEN a ELSE b
Max(a, b) == IF a > b THEN a ELSE b

kDirections == <<"Right", "Down", "Left", "Up">>
Directions == {"Right", "Down", "Left", "Up"}
Players == {"Red", "Blue"}
Pawns == {"Cat", "Mouse"}

Cell(c, r) == [column |-> c, row |-> r]

CellsOf(columns, rows) == {Cell(c, r) : c \in 0..(columns - 1), r \in 0..(rows - 1)}

\* Cell::operator<=> (defaulted): lexicographic on (column, row)
CellLess(a, b) == a.column < b.column \/ (a.column = b.column /\ a.row < b.row)

other_player(player) == IF player = "Red" THEN "Blue" ELSE "Red"

step(cell, direction) ==
    CASE direction = "Right" -> Cell(cell.column + 1, cell.row)
      [] direction = "Down"  -> Cell(cell.column, cell.row + 1)
      [] direction = "Left"  -> Cell(cell.column - 1, cell.row)
      [] direction = "Up"    -> Cell(cell.column, cell.row - 1)

Wall(cell, type) == [cell |-> cell, type |-> type]

\* Wall::Wall(Cell, Direction): Left and Up normalise to the neighbour's
\* Right and Down wall
WallDir(c, dir) ==
    CASE dir = "Right" -> Wall(c, "Right")
      [] dir = "Down"  -> Wall(c, "Down")
      [] dir = "Left"  -> Wall(Cell(c.column - 1, c.row), "Right")
      [] dir = "Up"    -> Wall(Cell(c.column, c.row - 1), "Down")

TurnOf(player, action) == [player |-> player, action |-> action]

TurnNext(t) ==
    IF t.action = "First" THEN TurnOf(t.player, "Second")
    ELSE TurnOf(IF t.player = "Red" THEN "Blue" ELSE "Red", "First")

TurnPrev(t) ==
    IF t.action = "Second" THEN TurnOf(t.player, "First")
    ELSE TurnOf(IF t.player = "Red" THEN "Blue" ELSE "Red", "Second")

PawnMove(pawn, dir) == [kind |-> "PawnMove", pawn |-> pawn, dir |-> dir]
WallAction(wall) == [kind |-> "Wall", wall |-> wall]

-----------------------------------------------------------------------------
(* gamestate.cpp : Board *)

\* Board::State bit of a pawn of a player
PawnBit(player, pawn) ==
    CASE player = "Red"  /\ pawn = "Cat"   -> "has_red_cat"
      [] player = "Red"  /\ pawn = "Mouse" -> "has_red_mouse"
      [] player = "Blue" /\ pawn = "Cat"   -> "has_blue_cat"
      [] player = "Blue" /\ pawn = "Mouse" -> "has_blue_mouse"

\* Board::State bit of a wall of a player
WallBit(player, type) ==
    CASE player = "Red"  /\ type = "Right" -> "has_red_right_wall"
      [] player = "Red"  /\ type = "Down"  -> "has_red_down_wall"
      [] player = "Blue" /\ type = "Right" -> "has_blue_right_wall"
      [] player = "Blue" /\ type = "Down"  -> "has_blue_down_wall"

\* Board::Board(columns, rows, red_cat, red_mouse, blue_cat, blue_mouse, variant);
\* the four bit assignments are done in the constructor's order
BoardCtor(columns, rows, red_cat, red_mouse, blue_cat, blue_mouse, variant) ==
    LET bits(c) == (IF c = red_cat THEN {"has_red_cat"} ELSE {})
                   \cup (IF c = blue_cat THEN {"has_blue_cat"} ELSE {})
                   \cup (IF c = red_mouse THEN {"has_red_mouse"} ELSE {})
                   \cup (IF c = blue_mouse THEN {"has_blue_mouse"} ELSE {})
    IN [m_red |-> [cat |-> red_cat, mouse |-> red_mouse],
        m_blue |-> [cat |-> blue_cat, mouse |-> blue_mouse],
        m_columns |-> columns,
        m_rows |-> rows,
        m_variant |-> variant,
        m_board |-> [c \in CellsOf(columns, rows) |-> bits(c)]]

\* Board::Board(columns, rows, variant)
BoardDefault(columns, rows, variant) ==
    BoardCtor(columns, rows, Cell(0, 0), Cell(0, rows - 1),
              Cell(columns - 1, 0), Cell(columns - 1, rows - 1), variant)

\* an is_blocked that looks for a Down wall below the last row
is_blocked_LastRow(b, wall) ==
    IF wall.cell.column < 0 \/ wall.cell.row < 0
       \/ wall.cell.column >= b.m_columns \/ wall.cell.row >= b.m_rows
    THEN TRUE
    ELSE IF wall.type = "Down"
         THEN "has_red_down_wall" \in b.m_board[wall.cell]
              \/ "has_blue_down_wall" \in b.m_board[wall.cell]
         ELSE IF wall.cell.column = b.m_columns - 1 THEN TRUE
              ELSE "has_red_right_wall" \in b.m_board[wall.cell]
                   \/ "has_blue_right_wall" \in b.m_board[wall.cell]

\* Board::is_blocked
is_blocked(b, wall) ==
    IF wall.cell.column < 0 \/ wall.cell.row < 0
       \/ wall.cell.column >= b.m_columns \/ wall.cell.row >= b.m_rows
    THEN TRUE
    ELSE IF wall.type = "Down"
         THEN IF wall.cell.row = b.m_rows - 1 THEN TRUE
              ELSE "has_red_down_wall" \in b.m_board[wall.cell]
                   \/ "has_blue_down_wall" \in b.m_board[wall.cell]
         ELSE IF wall.cell.column = b.m_columns - 1 THEN TRUE
              ELSE "has_red_right_wall" \in b.m_board[wall.cell]
                   \/ "has_blue_right_wall" \in b.m_board[wall.cell]

position(b, player) == IF player = "Red" THEN b.m_red.cat ELSE b.m_blue.cat
mouse(b, player) == IF player = "Red" THEN b.m_red.mouse ELSE b.m_blue.mouse
goal(b, player) == mouse(b, other_player(player))
pawn_position(b, player, pawn) ==
    IF pawn = "Cat" THEN position(b, player) ELSE mouse(b, player)
allows_mouse_moves(b) == b.m_variant = "Standard"

\* a sequence filtered in order
RECURSIVE SelectSeqDirs(_, _, _)
SelectSeqDirs(b, pos, i) ==
    IF i > 4 THEN <<>>
    ELSE (IF ~is_blocked(b, WallDir(pos, kDirections[i])) THEN <<kDirections[i]>> ELSE <<>>)
         \o SelectSeqDirs(b, pos, i + 1)

legal_directions(b, player, pawn) ==
    IF pawn = "Mouse" /\ ~allows_mouse_moves(b) THEN <<>>
    ELSE SelectSeqDirs(b, pawn_position(b, player, pawn), 1)

\* the for loop over dir_idx inside Board::find_bridges, from dir_idx on:
\* the frame as the loop leaves it, and the unprocessed neighbour if one is found
RECURSIVE find_bridges_scan(_, _, _, _)
find_bridges_scan(b, levels, frame, dir_idx) ==
    IF dir_idx >= 4
    THEN [found |-> FALSE, frame |-> frame, neighbor |-> frame.cell]
    ELSE LET dir == kDirections[dir_idx + 1]
             wall == WallDir(frame.cell, dir)
         IN IF is_blocked(b, wall)
            THEN find_bridges_scan(b, levels, frame, dir_idx + 1)
            ELSE LET neighbor == step(frame.cell, dir)
                     neighbor_level == levels[neighbor]
                 IN IF neighbor_level = frame.level - 1
                    THEN find_bridges_scan(b, levels, frame, dir_idx + 1)
                    ELSE IF neighbor_level = -1
                         THEN [found |-> TRUE,
                               frame |-> [frame EXCEPT !.dir_index = dir_idx + 1],
                               neighbor |-> neighbor]
                         ELSE find_bridges_scan(b, levels,
                                  [frame EXCEPT !.min_level = Min(@, neighbor_level)],
                                  dir_idx + 1)

\* a find_bridges that reports every bridge it closes, on the way to the
\* target or not
RECURSIVE find_bridges_loop_AnyBridge(_, _, _, _, _)
find_bridges_loop_AnyBridge(b, target, levels, stack, bridges) ==
    IF Len(stack) = 0 THEN bridges
    ELSE LET n == Len(stack)
             resume(scan) ==
            IF scan.found
            THEN find_bridges_loop_AnyBridge(b, target,
                     [levels EXCEPT ![scan.neighbor] = scan.frame.level + 1],
                     Append([stack EXCEPT ![n] = scan.frame],
                            [cell |-> scan.neighbor,
                             level |-> scan.frame.level + 1,
                             dir_index |-> 0,
                             target_found |-> (scan.neighbor = target),
                             min_level |-> scan.frame.level + 1]),
                     bridges)
            ELSE IF n = 1 THEN bridges
                 ELSE LET frame == scan.frame
                          parent == [stack[n - 1] EXCEPT
                                        !.target_found = @ \/ frame.target_found,
                                        !.min_level = Min(@, frame.min_level)]
                          isBridge == frame.min_level > parent.level
                      IN find_bridges_loop_AnyBridge(b, target, levels,
                             Append(SubSeq(stack, 1, n - 2), parent),
                             IF isBridge
                             THEN bridges \cup {WallDir(parent.cell, kDirections[parent.dir_index])}
                             ELSE bridges)
         IN resume(find_bridges_scan(b, levels, stack[n], stack[n].dir_index))

\* the while loop of Board::find_bridges
RECURSIVE find_bridges_loop(_, _, _, _, _)
find_bridges_loop(b, target, levels, stack, bridges) ==
    IF Len(stack) = 0 THEN bridges
    ELSE LET n == Len(stack)
             resume(scan) ==
            IF scan.found
            THEN find_bridges_loop(b, target,
                     [levels EXCEPT ![scan.neighbor] = scan.frame.level + 1],
                     Append([stack EXCEPT ![n] = scan.frame],
                            [cell |-> scan.neighbor,
                             level |-> scan.frame.level + 1,
                             dir_index |-> 0,
                             target_found |-> (scan.neighbor = target),
                             min_level |-> scan.frame.level + 1]),
                     bridges)
            ELSE IF n = 1 THEN bridges
                 ELSE LET frame == scan.frame
                          parent == [stack[n - 1] EXCEPT
                                        !.target_found = @ \/ frame.target_found,
                                        !.min_level = Min(@, frame.min_level)]
                          isBridge == frame.target_found /\ frame.min_level > parent.level
                      IN find_bridges_loop(b, target, levels,
                             Append(SubSeq(stack, 1, n - 2), parent),
                             IF isBridge
                             THEN bridges \cup {WallDir(parent.cell, kDirections[parent.dir_index])}
                             ELSE bridges)
         IN resume(find_bridges_scan(b, levels, stack[n], stack[n].dir_index))

find_bridges(b, start, target, bridges) ==
    find_bridges_loop(b, target,
        [c \in CellsOf(b.m_columns, b.m_rows) |-> IF c = start THEN 1 ELSE -1],
        <<[cell |-> start, level |-> 1, dir_index |-> 0,
           target_found |-> (start = target), min_level |-> 1]>>,
        bridges)

\* legal_walls with the Red pass of find_bridges left out
illegal_walls_BlueOnly(b) ==
    find_bridges(b, position(b, "Blue"), goal(b, "Blue"), {})

\* the set of walls Board::legal_walls refuses
illegal_walls(b) ==
    find_bridges(b, position(b, "Red"), goal(b, "Red"),
        find_bridges(b, position(b, "Blue"), goal(b, "Blue"), {}))

\* the candidate walls in the order of the loops of Board::legal_walls:
\* column, then row, then Down before Right
RECURSIVE WallCandidates(_, _, _, _)
WallCandidates(columns, rows, column, row) ==
    IF column >= columns THEN <<>>
    ELSE IF row >= rows THEN WallCandidates(columns, rows, column + 1, 0)
    ELSE <<Wall(Cell(column, row), "Down"), Wall(Cell(column, row), "Right")>>
         \o WallCandidates(columns, rows, column, row + 1)

legal_walls(b) ==
    LET candidates == WallCandidates(b.m_columns, b.m_rows, 0, 0)
        kept == {w \in Range(candidates) : ~is_blocked(b, w)} \ illegal_walls(b)
    IN SelectSeq(candidates, LAMBDA w : w \in kept)

legal_actions(b, player) ==
    SeqMap(LAMBDA d : PawnMove("Cat", d), legal_directions(b, player, "Cat"))
    \o SeqMap(LAMBDA d : PawnMove("Mouse", d),
              IF allows_mouse_moves(b) THEN legal_directions(b, player, "Mouse") ELSE <<>>)
    \o SeqMap(LAMBDA w : WallAction(w), legal_walls(b))

\* membership in legal_actions(player), without building the whole list
is_legal_action(b, player, action) ==
    IF action.kind = "PawnMove"
    THEN /\ action.pawn = "Cat" \/ allows_mouse_moves(b)
         /\ action.dir \in Range(legal_directions(b, player, action.pawn))
    ELSE action.wall \in Range(legal_walls(b))

\* a take_step that leaves the pawn's bit on the cell it came from
take_step_KeepBit(b, player, pawn, dir) ==
    LET pos == pawn_position(b, player, pawn)
        bit == PawnBit(player, pawn)
        new == step(pos, dir)
        side == IF player = "Red" THEN "m_red" ELSE "m_blue"
        fld == IF pawn = "Cat" THEN "cat" ELSE "mouse"
    IN IF is_blocked(b, WallDir(pos, dir))
       THEN [err |-> TRUE, board |-> b]
       ELSE [err |-> FALSE,
             board |-> [b EXCEPT
                 ![side][fld] = new,
                 !.m_board = [c \in DOMAIN b.m_board |->
                     IF c = new THEN b.m_board[c] \cup {bit} ELSE b.m_board[c]]]]

\* Board::take_step; err stands for the exception thrown
take_step(b, player, pawn, dir) ==
    LET pos == pawn_position(b, player, pawn)
        bit == PawnBit(player, pawn)
        new == step(pos, dir)
        side == IF player = "Red" THEN "m_red" ELSE "m_blue"
        fld == IF pawn = "Cat" THEN "cat" ELSE "mouse"
    IN IF is_blocked(b, WallDir(pos, dir))
       THEN [err |-> TRUE, board |-> b]
       ELSE [err |-> FALSE,
             board |-> [b EXCEPT
                 ![side][fld] = new,
                 !.m_board = [c \in DOMAIN b.m_board |->
                     IF c = new THEN (b.m_board[c] \ (IF c = pos THEN {bit} ELSE {})) \cup {bit}
                     ELSE IF c = pos THEN b.m_board[c] \ {bit}
                     ELSE b.m_board[c]]]]

\* a place_wall that only refuses the edges of the boundary
place_wall_Overbuild(b, player, wall) ==
    IF (wall.type = "Down" /\ wall.cell.row = b.m_rows - 1)
       \/ (wall.type = "Right" /\ wall.cell.column = b.m_columns - 1)
    THEN [err |-> TRUE, board |-> b]
    ELSE [err |-> FALSE,
          board |-> [b EXCEPT !.m_board[wall.cell] = @ \cup {WallBit(player, wall.type)}]]

\* Board::place_wall
place_wall(b, player, wall) ==
    IF is_blocked(b, wall)
    THEN [err |-> TRUE, board |-> b]
    ELSE [err |-> FALSE,
          board |-> [b EXCEPT !.m_board[wall.cell] = @ \cup {WallBit(player, wall.type)}]]

\* Board::do_action
do_action(b, player, action) ==
    IF action.kind = "PawnMove"
    THEN IF action.pawn = "Mouse" /\ ~allows_mouse_moves(b)
         THEN [err |-> TRUE, board |-> b]
         ELSE take_step(b, player, action.pawn, action.dir)
    ELSE place_wall(b, player, action.wall)

\* Board::distance: breadth-first search with an explicit queue; -1 when the
\* target is not reached
RECURSIVE distance_loop(_, _, _, _)
distance_loop(b, target, visited, queue) ==
    IF Len(queue) = 0 THEN -1
    ELSE LET top == queue[1].cell
             dist == queue[1].dist
         IN IF top = target THEN dist
            ELSE LET visited2 == visited \cup {top}
                     open == SelectSeq(kDirections,
                                LAMBDA d : ~is_blocked(b, WallDir(top, d))
                                           /\ step(top, d) \notin visited2)
                 IN distance_loop(b, target, visited2,
                        Tail(queue) \o SeqMap(LAMBDA d : [cell |-> step(top, d), dist |-> dist + 1], open))

distance(b, start, target) ==
    distance_loop(b, target, {}, <<[cell |-> start, dist |-> 0]>>)

\* a winner that takes the -1 of an unreachable goal for a distance
winner_NoSentinel(b) ==
    IF b.m_red.cat = b.m_blue.mouse
    THEN LET dist == distance(b, b.m_blue.cat, b.m_red.mouse)
         IN IF dist <= 2 THEN "Draw" ELSE "Red"
    ELSE IF b.m_blue.cat = b.m_red.mouse THEN "Blue"
    ELSE "Undecided"

\* Board::winner
winner(b) ==
    IF b.m_red.cat = b.m_blue.mouse
    THEN LET dist == distance(b, b.m_blue.cat, b.m_red.mouse)
         IN IF dist <= 2 /\ dist # -1 THEN "Draw" ELSE "Red"
    ELSE IF b.m_blue.cat = b.m_red.mouse THEN "Blue"
    ELSE "Undecided"

-----------------------------------------------------------------------------
(* gamestate.cpp : move notation.  A notation string is modelled as the    *)
(* sequence of its dot-separated components; a component is its prefix     *)
(* character, its column letter (as the index of the letter, a = 0) and    *)
(* the number written after the letter.                                    *)

kColumnLabelsSize == 13
kRowLabelsSize == 10

Component(prefix, col, num) == [prefix |-> prefix, col |-> col, num |-> num]

\* cell_notation: the letter index and the official row; err when the cell
\* cannot be written (the exception)
cell_notation(cell, rows) ==
    LET official_row == rows - cell.row
    IN IF official_row < 1 \/ official_row > kRowLabelsSize
          \/ cell.column < 0 \/ cell.column >= kColumnLabelsSize
       THEN [err |-> TRUE, col |-> cell.column, num |-> official_row]
       ELSE [err |-> FALSE, col |-> cell.column, num |-> official_row]

\* a wall_notation that writes a Down wall with the cell above it
wall_notation_CellAbove(wall, rows) ==
    LET n == cell_notation(wall.cell, rows)
    IN [err |-> n.err, comp |-> Component(IF wall.type = "Right" THEN ">" ELSE "^", n.col, n.num)]

\* wall_notation
wall_notation(wall, rows) ==
    IF wall.type = "Right"
    THEN LET n == cell_notation(wall.cell, rows)
         IN [err |-> n.err, comp |-> Component(">", n.col, n.num)]
    ELSE LET n == cell_notation(step(wall.cell, "Down"), rows)
         IN [err |-> n.err, comp |-> Component("^", n.col, n.num)]

\* the comparison Move::standard_notation sorts the walls with
WallBefore(a, b) ==
    IF a.type # b.type THEN a.type = "Right" ELSE CellLess(a.cell, b.cell)

\* Move: an ordered pair of actions
Move(first, second) == [first |-> first, second |-> second]

\* the destination of a pawn after the pawn moves among `acts`, in order
RECURSIVE PawnDestination(_, _, _)
PawnDestination(acts, pawn, start) ==
    IF acts = <<>> THEN start
    ELSE PawnDestination(Tail(acts), pawn,
             IF Head(acts).kind = "PawnMove" /\ Head(acts).pawn = pawn
             THEN step(start, Head(acts).dir) ELSE start)

\* Move::standard_notation(cat_start, mouse_start, rows)
standard_notation(move, cat_start, mouse_start, rows) ==
    LET acts == <<move.first, move.second>>
        hasCat == \E i \in 1..2 : acts[i].kind = "PawnMove" /\ acts[i].pawn = "Cat"
        hasMouse == \E i \in 1..2 : acts[i].kind = "PawnMove" /\ acts[i].pawn = "Mouse"
        catN == cell_notation(PawnDestination(acts, "Cat", cat_start), rows)
        mouseN == cell_notation(PawnDestination(acts, "Mouse", mouse_start), rows)
        walls0 == SeqMap(LAMBDA a : a.wall, SelectSeq(acts, LAMBDA a : a.kind = "Wall"))
        walls == IF Len(walls0) = 2 /\ WallBefore(walls0[2], walls0[1])
                 THEN <<walls0[2], walls0[1]>> ELSE walls0
        wallNs == SeqMap(LAMBDA w : wall_notation(w, rows), walls)
    IN [err |-> (hasCat /\ catN.err) \/ (hasMouse /\ mouseN.err)
                \/ (\E i \in 1..Len(wallNs) : wallNs[i].err),
        text |-> (IF hasCat THEN <<Component("C", catN.col, catN.num)>> ELSE <<>>)
                 \o (IF hasMouse THEN <<Component("M", mouseN.col, mouseN.num)>> ELSE <<>>)
                 \o SeqMap(LAMBDA n : n.comp, wallNs)]

-----------------------------------------------------------------------------
(* engine_adapter.cpp : padding *)

\* a create_padding_config that puts the larger half of the spare columns
\* on the left
create_padding_config_RightBiased(model_rows, model_columns, game_rows, game_columns, variant) ==
    [model_rows |-> model_rows,
     model_columns |-> model_columns,
     game_rows |-> game_rows,
     game_columns |-> game_columns,
     variant |-> variant,
     row_offset |-> IF variant = "Standard" THEN 0 ELSE model_rows - game_rows,
     col_offset |-> IF variant = "Standard" THEN 0
                    ELSE (model_columns - game_columns + 1) \div 2]

create_padding_config(model_rows, model_columns, game_rows, game_columns, variant) ==
    [model_rows |-> model_rows,
     model_columns |-> model_columns,
     game_rows |-> game_rows,
     game_columns |-> game_columns,
     variant |-> variant,
     row_offset |-> IF variant = "Standard" THEN 0 ELSE model_rows - game_rows,
     col_offset |-> IF variant = "Standard" THEN 0
                    ELSE (model_columns - game_columns) \div 2]

needs_padding(config) ==
    config.game_rows # config.model_rows \/ config.game_columns # config.model_columns

transform_to_model(game_cell, config) ==
    Cell(game_cell.column + config.col_offset, game_cell.row + config.row_offset)

transform_wall_to_model(game_wall, config) ==
    Wall(transform_to_model(game_wall.cell, config), game_wall.type)

\* a transform_to_game that takes one column and one row too many
transform_to_game_Inclusive(model_cell, config) ==
    LET game_col == model_cell.column - config.col_offset
        game_row == model_cell.row - config.row_offset
    IN IF game_col < 0 \/ game_col > config.game_columns
          \/ game_row < 0 \/ game_row > config.game_rows
       THEN None
       ELSE Some(Cell(game_col, game_row))

\* transform_to_game
transform_to_game(model_cell, config) ==
    LET game_col == model_cell.column - config.col_offset
        game_row == model_cell.row - config.row_offset
    IN IF game_col < 0 \/ game_col >= config.game_columns
          \/ game_row < 0 \/ game_row >= config.game_rows
       THEN None
       ELSE Some(Cell(game_col, game_row))

\* a Standard branch that only walls off the bottom and the right of the game
PaddingWallsStandard_BoundaryOnly(config) ==
    {Wall(Cell(col, config.game_rows - 1), "Down") : col \in 0..(config.game_columns - 1)}
    \cup {Wall(Cell(config.game_columns - 1, row), "Right") :
             row \in 0..(config.game_rows - 1)}

\* the walls place_padding_walls tries to place, Standard branch
PaddingWallsStandard(config) ==
    \* bottom boundary of the game area
    {Wall(Cell(col, config.game_rows - 1), "Down") : col \in 0..(config.game_columns - 1)}
    \* right boundary of the game area
    \cup {Wall(Cell(config.game_columns - 1, row), "Right") :
             row \in 0..(config.game_rows - 1)}
    \* every wall of a cell of the padding area
    \cup {Wall(c, t) :
             c \in {c \in CellsOf(config.model_columns, config.model_rows) :
                       ~(c.row < config.game_rows /\ c.column < config.game_columns)},
             t \in {"Right", "Down"}}

\* the walls place_padding_walls tries to place, Classic branch
PaddingWallsClassic(config) ==
    LET right_boundary_col == config.col_offset + config.game_columns - 1
        game_col_start == config.col_offset
        game_col_end == config.col_offset + config.game_columns
    IN \* all cells in the top padding area
       {Wall(Cell(col, row), "Down") :
            col \in 0..(config.model_columns - 1),
            row \in {r \in 0..(config.row_offset - 1) : r < config.model_rows - 1}}
       \cup {Wall(Cell(col, row), "Right") :
            col \in 0..(config.model_columns - 1), row \in 0..(config.row_offset - 1)}
       \* top boundary of the game area
       \cup (IF config.row_offset > 0
             THEN {Wall(Cell(col, config.row_offset - 1), "Down") :
                      col \in config.col_offset..(config.col_offset + config.game_columns - 1)}
             ELSE {})
       \* left boundary, except the bottom row
       \cup (IF config.col_offset > 0
             THEN {Wall(Cell(config.col_offset - 1, row), "Right") :
                      row \in {r \in config.row_offset..(config.model_rows - 1) :
                                  r # config.model_rows - 1}}
             ELSE {})
       \* right boundary, except the bottom row
       \cup (IF right_boundary_col < config.model_columns - 1
             THEN {Wall(Cell(right_boundary_col, row), "Right") :
                      row \in {r \in config.row_offset..(config.model_rows - 1) :
                                  r # config.model_rows - 1}}
             ELSE {})
       \* padding columns within the game rows
       \cup {Wall(Cell(col, row), "Down") :
                col \in {c \in 0..(config.model_columns - 1) :
                            ~(c >= game_col_start /\ c < game_col_end)},
                row \in config.row_offset..(config.model_rows - 1)}
       \cup {Wall(Cell(col, row), "Right") :
                col \in {c \in 0..(config.model_columns - 1) :
                            ~(c >= game_col_start /\ c < game_col_end)},
                row \in {r \in config.row_offset..(config.model_rows - 1) :
                            r # config.model_rows - 1}}

\* every wall of `walls` that is not blocked is placed for `player`
\* (if (!board.is_blocked(wall)) board.place_wall(player, wall))
PlaceUnblocked(b, player, walls) ==
    [b EXCEPT !.m_board = [c \in DOMAIN b.m_board |->
        b.m_board[c] \cup {WallBit(player, t) : t \in {t \in {"Right", "Down"} :
                              Wall(c, t) \in walls /\ ~is_blocked(b, Wall(c, t))}}]]

place_padding_walls(b, config) ==
    IF ~needs_padding(config) THEN b
    ELSE IF config.variant = "Standard"
         THEN PlaceUnblocked(b, "Red", PaddingWallsStandard(config))
         ELSE PlaceUnblocked(b, "Red", PaddingWallsClassic(config))

\* parse_notation_coords: the column of the letter and the internal row
parse_notation_coords(comp, model_rows) ==
    Cell(comp.col, model_rows - comp.num)

\* a format_notation_coords that numbers the rows from 0
format_notation_coords_ZeroBased(col, row, game_rows) ==
    [col |-> col, num |-> game_rows - row - 1]

\* format_notation_coords: the letter and the official row
format_notation_coords(col, row, game_rows) ==
    [col |-> col, num |-> game_rows - row]

\* the body of the loop of transform_move_notation for one component
transform_component(component, config) ==
    LET model == parse_notation_coords(component, config.model_rows)
        game_cell == transform_to_game(model, config)
    IN IF component.prefix \in {"C", "M"}
       THEN IF game_cell # None
            THEN LET f == format_notation_coords(game_cell[1].column, game_cell[1].row,
                                                 config.game_rows)
                 IN Component(component.prefix, f.col, f.num)
            ELSE IF config.variant = "Classic"
                 THEN LET game_col ==
                              IF model.column < config.col_offset THEN 0
                              ELSE IF model.column >= config.col_offset + config.game_columns
                                   THEN config.game_columns - 1
                                   ELSE model.column - config.col_offset
                          game_row == config.game_rows - 1
                          f == format_notation_coords(game_col, game_row, config.game_rows)
                      IN Component(component.prefix, f.col, f.num)
                 ELSE component
       ELSE IF component.prefix \in {">", "^"}
            THEN IF game_cell # None
                 THEN LET f == format_notation_coords(game_cell[1].column, game_cell[1].row,
                                                      config.game_rows)
                      IN Component(component.prefix, f.col, f.num)
                 ELSE component
            ELSE component

transform_move_notation(model_notation, config) ==
    IF ~needs_padding(config) THEN model_notation
    ELSE SeqMap(LAMBDA c : transform_component(c, config), model_notation)

\* parse_single_action: the parsed action, if any.  A pawn
\* move is returned as PawnMove{pawn, model_cell}: the pawn and the cell the
\* notation names.
ParsedPawnMove(pawn, cell) == [kind |-> "PawnMoveTo", pawn |-> pawn, cell |-> cell]

parse_single_action(comp, padding_config) ==
    LET game_cell == Cell(comp.col, comp.num - 1)
        model_cell == transform_to_model(game_cell, padding_config)
    IN CASE comp.prefix = "C" -> Some(ParsedPawnMove("Cat", model_cell))
         [] comp.prefix = "M" -> Some(ParsedPawnMove("Mouse", model_cell))
         [] comp.prefix = ">" -> Some(WallAction(Wall(model_cell, "Right")))
         [] comp.prefix = "^" ->
                Some(WallAction(Wall(Cell(model_cell.column, model_cell.row - 1), "Down")))
         [] OTHER -> None

\* parse_move_notation: the notation is split at its first '.'; the second
\* action is read from the start of what follows
parse_move_notation(notation, padding_config) ==
    IF Len(notation) < 2 THEN None
    ELSE LET action1 == parse_single_action(notation[1], padding_config)
             action2 == parse_single_action(notation[2], padding_config)
         IN IF action1 = None \/ action2 = None THEN None
            ELSE Some(Move(action1[1], action2[1]))

-----------------------------------------------------------------------------
(* engine_adapter.cpp : BgsConfig.  A config is the JSON object of the     *)
(* start_game_session request: its variant string, boardWidth,             *)
(* boardHeight, and in initialState the pawns as [row, col] pairs and the  *)
(* walls as [cell, orientation, playerId] objects.                         *)

\* the model dimensions of BgsEngineConfig (8 x 8 in the source), scaled
ModelRows == 5
ModelCols == 4

\* the smallest board side validate_bgs_config accepts
kMinBoardSide == 4

parse_variant(variant) ==
    IF variant = "classic" THEN Some("Classic")
    ELSE IF variant = "standard" THEN Some("Standard")
    ELSE None

\* ValidationResult
ValidationResult(valid, error_message) == [valid |-> valid, error_message |-> error_message]

\* "<width>x<height>" of the error messages
Dimensions(width, height) == ToString(width) \o "x" \o ToString(height)

\* the message both validations give for a variant they do not support
UnsupportedVariant(variant) ==
    "Deep-wallwars only supports the 'classic' and 'standard' variants (not '"
        \o variant \o "')"

\* validate_request: the validation of the engine for single requests
validate_request(state_json, model_rows, model_columns) ==
    LET variant == state_json.config.variant
        width == state_json.config.boardWidth
        height == state_json.config.boardHeight
    IN IF parse_variant(variant) = None
       THEN ValidationResult(FALSE, UnsupportedVariant(variant))
       ELSE IF width < kMinBoardSide \/ height < kMinBoardSide
       THEN ValidationResult(FALSE, "Board dimensions must be at least 4x4 (got "
                                        \o Dimensions(width, height) \o ")")
       ELSE IF width > model_columns \/ height > model_rows
       THEN ValidationResult(FALSE, "This engine supports boards up to "
                                        \o Dimensions(model_columns, model_rows)
                                        \o " (got " \o Dimensions(width, height) \o ")")
       ELSE ValidationResult(TRUE, "")

\* a validation whose upper limit is one too high
validate_bgs_config_OneMore(bgs_config, model_rows, model_columns) ==
    IF ~({"variant", "boardWidth", "boardHeight", "initialState"} \subseteq DOMAIN bgs_config)
    THEN ValidationResult(FALSE, "BgsConfig missing required fields")
    ELSE IF parse_variant(bgs_config.variant) = None
    THEN ValidationResult(FALSE, UnsupportedVariant(bgs_config.variant))
    ELSE IF bgs_config.boardWidth < kMinBoardSide \/ bgs_config.boardHeight < kMinBoardSide
    THEN ValidationResult(FALSE, "Board dimensions must be at least 4x4")
    ELSE IF bgs_config.boardWidth > model_columns + 1
            \/ bgs_config.boardHeight > model_rows + 1
    THEN ValidationResult(FALSE, "Board dimensions ("
                                    \o Dimensions(bgs_config.boardWidth, bgs_config.boardHeight)
                                    \o ") exceed model dimensions ("
                                    \o Dimensions(model_columns, model_rows) \o ")")
    ELSE ValidationResult(TRUE, "")

\* validate_bgs_config: the validation of start_game_session
validate_bgs_config(bgs_config, model_rows, model_columns) ==
    IF ~({"variant", "boardWidth", "boardHeight", "initialState"} \subseteq DOMAIN bgs_config)
    THEN ValidationResult(FALSE, "BgsConfig missing required fields")
    ELSE IF parse_variant(bgs_config.variant) = None
    THEN ValidationResult(FALSE, UnsupportedVariant(bgs_config.variant))
    ELSE IF bgs_config.boardWidth < kMinBoardSide \/ bgs_config.boardHeight < kMinBoardSide
    THEN ValidationResult(FALSE, "Board dimensions must be at least 4x4")
    ELSE IF bgs_config.boardWidth > model_columns \/ bgs_config.boardHeight > model_rows
    THEN ValidationResult(FALSE, "Board dimensions ("
                                    \o Dimensions(bgs_config.boardWidth, bgs_config.boardHeight)
                                    \o ") exceed model dimensions ("
                                    \o Dimensions(model_columns, model_rows) \o ")")
    ELSE ValidationResult(TRUE, "")

\* a call of a validation function: the function, the config it was given
\* and its ValidationResult
ValidationCall(fn, variant, width, height, result) ==
    [fn |-> fn, variant |-> variant, boardWidth |-> width, boardHeight |-> height,
     result |-> result]
NoValidation == ValidationCall("none", "", 0, 0, ValidationResult(FALSE, ""))

\* parse_cell: [row, col] of the API to Cell{col, row}
parse_cell(cell_json) == Cell(cell_json[2], cell_json[1])

\* parse_wall
parse_wall(wall_json) ==
    LET cell == parse_cell(wall_json.cell)
    IN IF wall_json.orientation = "vertical"
       THEN Wall(cell, "Right")
       ELSE Wall(Cell(cell.column, cell.row - 1), "Down")

\* the loop placing the initial walls of the config; err when place_wall throws
RECURSIVE PlaceInitialWalls(_, _, _)
PlaceInitialWalls(b, walls_array, padding_config) ==
    IF walls_array = <<>> THEN [err |-> FALSE, board |-> b]
    ELSE LET wall_json == Head(walls_array)
             model_wall == transform_wall_to_model(parse_wall(wall_json), padding_config)
             wall_owner == IF wall_json.playerId = 1 THEN "Red" ELSE "Blue"
             placed == place_wall(b, wall_owner, model_wall)
         IN IF placed.err THEN placed
            ELSE PlaceInitialWalls(placed.board, Tail(walls_array), padding_config)

convert_bgs_config_to_board(bgs_config, model_rows, model_columns) ==
    LET parsed_variant == parse_variant(bgs_config.variant)
        variant == IF parsed_variant = None THEN "Classic" ELSE parsed_variant[1]
        padding_config == create_padding_config(model_rows, model_columns,
                              bgs_config.boardHeight, bgs_config.boardWidth, variant)
        pawns == bgs_config.initialState.pawns
        red_cat == transform_to_model(parse_cell(pawns.p1.cat), padding_config)
        blue_cat == transform_to_model(parse_cell(pawns.p2.cat), padding_config)
        red_mouse == IF variant = "Classic" THEN Cell(0, model_rows - 1)
                     ELSE transform_to_model(parse_cell(pawns.p1.mouse), padding_config)
        blue_mouse == IF variant = "Classic" THEN Cell(model_columns - 1, model_rows - 1)
                      ELSE transform_to_model(parse_cell(pawns.p2.mouse), padding_config)
        b0 == BoardCtor(model_columns, model_rows, red_cat, red_mouse,
                        blue_cat, blue_mouse, variant)
        placed == PlaceInitialWalls(place_padding_walls(b0, padding_config),
                                    bgs_config.initialState.walls, padding_config)
    IN IF ~({"pawns", "walls"} \subseteq DOMAIN bgs_config.initialState)
       THEN [undefined |-> TRUE, err |-> FALSE]
       ELSE [undefined |-> FALSE,
             err |-> placed.err,
             board |-> placed.board,
             turn |-> TurnOf("Red", "First"),
             padding_config |-> padding_config]

-----------------------------------------------------------------------------
(* batched_model_policy.cpp : the edges of an evaluation *)

PreviousPosition(pawn, cell) == [pawn |-> pawn, cell |-> cell]

is_backtrack(previous_position, pawn, next_cell) ==
    /\ previous_position # None
    /\ previous_position[1].pawn = pawn
    /\ previous_position[1].cell = next_cell

add_pawn_moves(b, turn_, previous_position, pawn, pos) ==
    SeqMap(LAMBDA d : PawnMove(pawn, d),
           SelectSeq(legal_directions(b, turn_.player, pawn),
                     LAMBDA d : ~is_backtrack(previous_position, pawn, step(pos, d))))

\* a policy that keeps every unblocked wall: the walls are not filtered by
\* the bridge search
BatchedModelPolicyEdges_AllWalls(b, turn_, previous_position) ==
    add_pawn_moves(b, turn_, previous_position, "Cat", position(b, turn_.player))
    \o (IF allows_mouse_moves(b)
        THEN add_pawn_moves(b, turn_, previous_position, "Mouse", mouse(b, turn_.player))
        ELSE <<>>)
    \o SeqMap(LAMBDA w : WallAction(w),
              SelectSeq(WallCandidates(b.m_columns, b.m_rows, 0, 0),
                        LAMBDA w : ~is_blocked(b, w)))

\* the actions of eval.edges, in order
BatchedModelPolicyEdges(b, turn_, previous_position) ==
    add_pawn_moves(b, turn_, previous_position, "Cat", position(b, turn_.player))
    \o (IF allows_mouse_moves(b)
        THEN add_pawn_moves(b, turn_, previous_position, "Mouse", mouse(b, turn_.player))
        ELSE <<>>)
    \o SeqMap(LAMBDA w : WallAction(w), legal_walls(b))

-----------------------------------------------------------------------------
(* The priors of the evaluators.  A prior is a fraction in lowest terms, so
   that sums and quotients are exact; the rounding of float is left out. *)

RECURSIVE GCD(_, _)
GCD(a, b) == IF b = 0 THEN a ELSE GCD(b, a % b)

\* num / den with den > 0, reduced
Frac(num, den) ==
    LET g == GCD(IF num < 0 THEN -num ELSE num, den)
    IN [num |-> num \div g, den |-> den \div g]
FracAdd(x, y) == Frac(x.num * y.den + y.num * x.den, x.den * y.den)
FracMul(x, y) == Frac(x.num * y.num, x.den * y.den)
\* x / y for y > 0
FracDiv(x, y) == Frac(x.num * y.den, x.den * y.num)
FracLess(x, y) == x.num * y.den < y.num * x.den

PriorEdge(action, prior) == [action |-> action, prior |-> prior]

RECURSIVE total_prior(_)
total_prior(edges) ==
    IF edges = <<>> THEN Frac(0, 1)
    ELSE FracAdd(edges[1].prior, total_prior(Tail(edges)))

\* the parameters of SimplePolicy: the defaults of the flags, a policy that
\* only moves pawns and a policy with no weight for bad moves
SimpleParams(move_prior, good_move_bias, bad_move_bias) ==
    [m_move_prior |-> move_prior, m_good_move_bias |-> good_move_bias,
     m_bad_move_bias |-> bad_move_bias]
DefaultParams == SimpleParams(Frac(3, 10), Frac(3, 2), Frac(3, 4))
SimpleParamSets ==
    {DefaultParams,
     SimpleParams(Frac(1, 1), Frac(3, 2), Frac(3, 4)),
     SimpleParams(Frac(3, 10), Frac(3, 2), Frac(0, 1))}

\* the prior of a pawn move before scaling: `closer` tells that a smaller
\* distance is the good one (the cat to its goal), otherwise a larger one
\* (the mouse from the other cat)
move_bias(params, dist, new_dist, closer) ==
    IF new_dist < dist
    THEN IF closer THEN params.m_good_move_bias ELSE params.m_bad_move_bias
    ELSE IF new_dist > dist
    THEN IF closer THEN params.m_bad_move_bias ELSE params.m_good_move_bias
    ELSE Frac(1, 1)

\* add_cat_moves / add_mouse_moves of SimplePolicy: the moves that are not
\* the backtrack and have a positive prior
simple_pawn_moves(params, b, turn_, previous_position, pawn) ==
    LET pos == pawn_position(b, turn_.player, pawn)
        target == IF pawn = "Cat" THEN goal(b, turn_.player)
                  ELSE position(b, other_player(turn_.player))
        dist == distance(b, pos, target)
        prior(dir) == move_bias(params, dist, distance(b, step(pos, dir), target),
                                pawn = "Cat")
    IN SeqMap(LAMBDA dir : PriorEdge(PawnMove(pawn, dir), prior(dir)),
              SelectSeq(legal_directions(b, turn_.player, pawn),
                        LAMBDA dir : /\ ~is_backtrack(previous_position, pawn, step(pos, dir))
                                     /\ prior(dir).num > 0))

\* a SimplePolicy that offers the backtrack as well
SimplePolicy_Backtrack(params, b, turn_, previous_position) ==
    LET walls == IF FracLess(params.m_move_prior, Frac(1, 1)) THEN legal_walls(b) ELSE <<>>
        scaled(moves) ==
           IF total_prior(moves).num > 0
           THEN SeqMap(LAMBDA te : PriorEdge(te.action,
                          FracMul(te.prior, FracDiv(params.m_move_prior, total_prior(moves)))),
                       moves)
           ELSE moves
    IN scaled(simple_pawn_moves(params, b, turn_, None, "Cat")
              \o (IF allows_mouse_moves(b)
                  THEN simple_pawn_moves(params, b, turn_, None, "Mouse")
                  ELSE <<>>))
       \o SeqMap(LAMBDA wall : PriorEdge(WallAction(wall),
                    FracDiv(FracAdd(Frac(1, 1), FracMul(Frac(-1, 1), params.m_move_prior)),
                            Frac(Len(walls), 1))),
                 walls)

\* SimplePolicy::operator(): the edges of the evaluation
SimplePolicy(params, b, turn_, previous_position) ==
    LET walls == IF FracLess(params.m_move_prior, Frac(1, 1)) THEN legal_walls(b) ELSE <<>>
        scaled(moves) ==
           IF total_prior(moves).num > 0
           THEN SeqMap(LAMBDA te : PriorEdge(te.action,
                          FracMul(te.prior, FracDiv(params.m_move_prior, total_prior(moves)))),
                       moves)
           ELSE moves
    IN scaled(simple_pawn_moves(params, b, turn_, previous_position, "Cat")
              \o (IF allows_mouse_moves(b)
                  THEN simple_pawn_moves(params, b, turn_, previous_position, "Mouse")
                  ELSE <<>>))
       \o SeqMap(LAMBDA wall : PriorEdge(WallAction(wall),
                    FracDiv(FracAdd(Frac(1, 1), FracMul(Frac(-1, 1), params.m_move_prior)),
                            Frac(Len(walls), 1))),
                 walls)

\* Board::index_from_cell
index_from_cell(b, cell) == cell.column * b.m_rows + cell.row

\* the place of an action in the prior vector of the model: the walls by
\* type and cell, then the four cat moves, then the four mouse moves
prior_index(b, action) ==
    LET ordinal(dir) == CHOOSE i \in 0..3 : kDirections[i + 1] = dir
    IN IF action.kind = "Wall"
       THEN (IF action.wall.type = "Right" THEN 0 ELSE 1) * b.m_columns * b.m_rows
            + index_from_cell(b, action.wall.cell)
       ELSE 2 * b.m_columns * b.m_rows + (IF action.pawn = "Cat" THEN 0 ELSE 4)
            + ordinal(action.dir)

\* the prior vectors the model is taken to return: one weight everywhere, or
\* weights that differ from index to index; they are positive and are not
\* normalised over the legal actions
ModelOutputs == {"uniform", "ramp"}
inference_prior(output, index) ==
    IF output = "uniform" THEN Frac(1, 8) ELSE Frac(1 + (index % 3), 16)

\* a BatchedModelPolicy that returns the priors of the model as they are
BatchedModelPolicy_Raw(output, b, turn_, previous_position) ==
    SeqMap(LAMBDA action : PriorEdge(action, inference_prior(output, prior_index(b, action))),
           BatchedModelPolicyEdges(b, turn_, previous_position))

\* BatchedModelPolicy::operator(): the edges of the evaluation, every prior
\* divided by the total of the priors of the edges
BatchedModelPolicy(output, b, turn_, previous_position) ==
    LET renormalize(edges, total) ==
           SeqMap(LAMBDA edge : PriorEdge(edge.action, FracDiv(edge.prior, total)), edges)
        raw == SeqMap(LAMBDA action :
                         PriorEdge(action, inference_prior(output, prior_index(b, action))),
                      BatchedModelPolicyEdges(b, turn_, previous_position))
    IN renormalize(raw, total_prior(raw))

-----------------------------------------------------------------------------
(* MCTS core (mcts.hpp), as the session layer uses it.  A node holds its   *)
(* board snapshot, the turn about to act, the previous-position hint, its  *)
(* sample count and its edges; an edge holds its action, its visit count   *)
(* and its child (an optional node).  The PUCT choice of an edge depends   *)
(* on the values and priors of the evaluator; here any edge may be chosen. *)

NewNode(b, turn_, previous_position) ==
    [board |-> b, turn |-> turn_, previous_position |-> previous_position,
     samples |-> 0, expanded |-> FALSE, edges |-> <<>>]

TreeEdge(action) == [action |-> action, N |-> 0, child |-> None]

\* the node an action leads to: the board after the action, the next turn,
\* and the vacated cell as hint when the same player acts again
NodeAfter(node, action) ==
    NewNode(do_action(node.board, node.turn.player, action).board,
            TurnNext(node.turn),
            IF action.kind = "PawnMove" /\ node.turn.action = "First"
            THEN Some(PreviousPosition(action.pawn,
                     pawn_position(node.board, node.turn.player, action.pawn)))
            ELSE None)

\* expansion: the edges of the evaluation; a terminal board gets no edges
Expand(node) ==
    [node EXCEPT
        !.expanded = TRUE,
        !.edges = IF winner(node.board) # "Undecided" THEN <<>>
                  ELSE SeqMap(TreeEdge,
                           BatchedModelPolicyEdges(node.board, node.turn,
                                                   node.previous_position))]

\* the selections a sample can make from a node: the indexes of the edges
\* taken down to the node it expands
RECURSIVE SamplePaths(_)
SamplePaths(node) ==
    IF ~node.expanded \/ node.edges = <<>> THEN {<<>>}
    ELSE UNION {IF node.edges[i].child = None THEN {<<i>>}
                ELSE {<<i>> \o p : p \in SamplePaths(node.edges[i].child[1])} :
                i \in 1..Len(node.edges)}

\* one sample along a selection: the leaf is expanded, and every node and
\* edge of the path counts the sample
RECURSIVE Backpropagate(_, _)
Backpropagate(node, path) ==
    IF path = <<>>
    THEN [(IF node.expanded THEN node ELSE Expand(node)) EXCEPT !.samples = @ + 1]
    ELSE LET i == Head(path)
             edge == node.edges[i]
             below == IF edge.child = None THEN NodeAfter(node, edge.action)
                      ELSE edge.child[1]
         IN [node EXCEPT
                !.samples = @ + 1,
                !.edges[i] = [edge EXCEPT
                                 !.N = @ + 1,
                                 !.child = Some(Backpropagate(below, Tail(path)))]]

\* MCTS::root_samples
root_samples(root) == root.samples

\* MCTS::root_value: W_root / max(1, N_root) of the player to move; the
\* values of the evaluator are not part of a node here, so a read of the
\* root value gives any value, beyond [-1, 1] as well
MaxRootValue == 2
RootValues == (-MaxRootValue)..MaxRootValue

\* a peek that takes the last of the most visited edges
peek_best_action_LastTie(node) ==
    LET explored == {i \in 1..Len(node.edges) : node.edges[i].child # None}
    IN IF explored = {} THEN 0
       ELSE CHOOSE i \in explored :
               \A j \in explored :
                   \/ node.edges[j].N < node.edges[i].N
                   \/ (node.edges[j].N = node.edges[i].N /\ i >= j)

\* MCTS::peek_best_action: the index of the most visited edge among the
\* edges with a child, the first one on ties; 0 when there is none
peek_best_action(node) ==
    LET explored == {i \in 1..Len(node.edges) : node.edges[i].child # None}
    IN IF explored = {} THEN 0
       ELSE CHOOSE i \in explored :
               \A j \in explored :
                   \/ node.edges[j].N < node.edges[i].N
                   \/ (node.edges[j].N = node.edges[i].N /\ i <= j)

\* MCTS::peek_best_move
peek_best_move(root) ==
    LET i == peek_best_action(root)
    IN IF i = 0 THEN None
       ELSE LET child == root.edges[i].child[1]
                j == peek_best_action(child)
            IN IF j = 0 THEN None
               ELSE Some(Move(root.edges[i].action, child.edges[j].action))

\* the action of the board a parsed action stands for: a pawn move names
\* its destination, which is one step from the pawn in at most one direction
ResolveAction(node, action) ==
    IF action.kind = "PawnMoveTo"
    THEN LET pos == pawn_position(node.board, node.turn.player, action.pawn)
             dirs == SelectSeq(kDirections, LAMBDA d : step(pos, d) = action.cell)
         IN IF dirs = <<>> THEN None ELSE Some(PawnMove(action.pawn, dirs[1]))
    ELSE Some(action)

\* one action of force_move: the child of the matching edge when there is
\* one, a fresh node otherwise; err when the action is not legal
ForceAction(node, action) ==
    LET descend(resolved, matching) ==
           IF matching = {}
           THEN [err |-> FALSE, node |-> NodeAfter(node, resolved[1]), kept |-> FALSE,
                 action |-> resolved[1]]
           ELSE [err |-> FALSE,
                 node |-> node.edges[CHOOSE i \in matching : TRUE].child[1],
                 kept |-> TRUE, action |-> resolved[1]]
        force(resolved) ==
           IF resolved = None
              \/ ~is_legal_action(node.board, node.turn.player, resolved[1])
           THEN [err |-> TRUE, node |-> node, kept |-> FALSE, action |-> action]
           ELSE descend(resolved, {i \in 1..Len(node.edges) :
                                      node.edges[i].action = resolved[1]
                                      /\ node.edges[i].child # None})
    IN force(ResolveAction(node, action))

\* a force_move that always starts a new subtree
force_move_Fresh(root, move) ==
    LET second(one, two) ==
           IF two.err
           THEN [err |-> TRUE, root |-> root, kept |-> FALSE, applied |-> None]
           ELSE [err |-> FALSE, kept |-> FALSE,
                 root |-> NodeAfter(one.node, two.action),
                 applied |-> Some(Move(one.action, two.action))]
        first(one) ==
           IF one.err THEN [err |-> TRUE, root |-> root, kept |-> FALSE, applied |-> None]
           ELSE second(one, ForceAction(one.node, move.second))
    IN first(ForceAction(root, move.first))

\* a force_move that stops after the first action of the move
force_move_FirstOnly(root, move) ==
    LET first(one) ==
           IF one.err THEN [err |-> TRUE, root |-> root, kept |-> FALSE, applied |-> None]
           ELSE [err |-> FALSE, root |-> one.node, kept |-> one.kept,
                 applied |-> Some(Move(one.action, one.action))]
    IN first(ForceAction(root, move.first))

\* MCTS::force_move: the root after the two actions; err when it raises,
\* and then the root is as before
force_move(root, move) ==
    LET second(one, two) ==
           IF two.err
           THEN [err |-> TRUE, root |-> root, kept |-> FALSE, applied |-> None]
           ELSE [err |-> FALSE, root |-> two.node, kept |-> one.kept /\ two.kept,
                 applied |-> Some(Move(one.action, two.action))]
        first(one) ==
           IF one.err THEN [err |-> TRUE, root |-> root, kept |-> FALSE, applied |-> None]
           ELSE second(one, ForceAction(one.node, move.second))
    IN first(ForceAction(root, move.first))

-----------------------------------------------------------------------------
(* bgs_session.cpp : sessions and request handlers *)

kMaxSessions == 256

\* samples_per_move of BgsEngineConfig (1000 in the source), scaled
SamplesPerMove == 3
\* requests that can be in flight at once
NumRequests == 2
\* no move is applied at this ply, and an evaluation is requested only
\* when the root holds at most this many samples
MaxPly == 1
MaxReusedSamples == 1

BgsIds == {"g1"}
Reqs == 1..NumRequests

\* the walls between two cells of a game board
InnerWalls(width, height) ==
    SelectSeq(WallCandidates(width, height, 0, 0),
              LAMBDA w : IF w.type = "Right" THEN w.cell.column < width - 1
                         ELSE w.cell.row < height - 1)

\* the JSON object of a wall of the game board
WallJson(w) ==
    [cell |-> IF w.type = "Right" THEN <<w.cell.row, w.cell.column>>
              ELSE <<w.cell.row + 1, w.cell.column>>,
     orientation |-> IF w.type = "Right" THEN "vertical" ELSE "horizontal",
     playerId |-> 1 + ((w.cell.row + w.cell.column) % 2)]

\* a config whose initial walls leave only the edges of `open` free
BgsConfig(variant, width, height, p1cat, p1mouse, p2cat, p2mouse, open) ==
    [variant |-> variant, boardWidth |-> width, boardHeight |-> height,
     initialState |->
        [pawns |-> [p1 |-> [cat |-> p1cat, mouse |-> p1mouse],
                    p2 |-> [cat |-> p2cat, mouse |-> p2mouse]],
         walls |-> SeqMap(WallJson, SelectSeq(InnerWalls(width, height),
                                              LAMBDA w : w \notin open))]]

\* a square of four free edges at the top left
OpenSquare ==
    {Wall(Cell(0, 0), "Right"), Wall(Cell(1, 0), "Down"),
     Wall(Cell(0, 1), "Right"), Wall(Cell(0, 0), "Down")}
OpenLeft(height) == {Wall(Cell(0, r), "Down") : r \in 0..(height - 2)}
OpenRight(width, height) == {Wall(Cell(width - 1, r), "Down") : r \in 0..(height - 2)}
OpenBottom(width, height) == {Wall(Cell(c, height - 1), "Right") : c \in 0..(width - 2)}

\* the configs the start_game_session requests carry
BgsConfigs ==
    {BgsConfig("classic", 4, 4, <<0, 0>>, <<3, 0>>, <<0, 3>>, <<3, 3>>,
               OpenSquare \cup OpenLeft(4) \cup OpenRight(4, 4) \cup OpenBottom(4, 4)),
     BgsConfig("standard", 4, 4, <<0, 0>>, <<3, 3>>, <<0, 3>>, <<3, 0>>,
               OpenLeft(4) \cup OpenRight(4, 4)),
     BgsConfig("classic", ModelCols, ModelRows, <<0, 0>>, <<ModelRows - 1, 0>>,
               <<0, ModelCols - 1>>, <<ModelRows - 1, ModelCols - 1>>,
               OpenLeft(ModelRows) \cup OpenRight(ModelCols, ModelRows)
               \cup OpenBottom(ModelCols, ModelRows)),
     BgsConfig("freestyle", 4, 4, <<0, 0>>, <<3, 0>>, <<0, 3>>, <<3, 3>>, {})}

\* a JSON object without one of its keys
Without(object, key) == [k \in DOMAIN object \ {key} |-> object[k]]

\* configs with a validation error: an unknown variant, a side below 4, a
\* side above the model, and missing fields: no variant, no initialState,
\* no pawns in the initialState
InvalidConfigs ==
    LET pawns(width, height) ==
           BgsConfig("classic", width, height, <<0, 0>>, <<3, 0>>, <<0, 3>>, <<3, 3>>, {})
    IN {BgsConfig("freestyle", 4, 4, <<0, 0>>, <<3, 0>>, <<0, 3>>, <<3, 3>>, {}),
        pawns(kMinBoardSide - 1, 4),
        pawns(4, ModelRows + 1),
        Without(pawns(4, 4), "variant"),
        Without(pawns(4, 4), "initialState"),
        [pawns(4, 4) EXCEPT !.initialState = Without(@, "pawns")]}

BgsSession(mcts, padding_config) ==
    [mcts |-> mcts, ply |-> 0, padding_config |-> padding_config,
     request_mutex |-> 0, evaluated |-> FALSE]

\* a response line; the fields after `error` are not part of the JSON: they
\* record the request the line answers
Response(type, bgsId, ply, bestMove, evaluation, success, error) ==
    [type |-> type, bgsId |-> bgsId, ply |-> ply, bestMove |-> bestMove,
     evaluation |-> evaluation, success |-> success, error |-> error]
NoLine == Response("none", "", 0, <<>>, 0, FALSE, "")

create_session_started_response(bgs_id, success, error) ==
    Response("game_session_started", bgs_id, 0, <<>>, 0, success, error)
create_session_ended_response(bgs_id, success, error) ==
    Response("game_session_ended", bgs_id, 0, <<>>, 0, success, error)
create_evaluate_response(bgs_id, ply, best_move, evaluation, success, error) ==
    Response("evaluate_response", bgs_id, ply, best_move, evaluation, success, error)
create_move_applied_response(bgs_id, ply, success, error) ==
    Response("move_applied", bgs_id, ply, <<>>, 0, success, error)

\* SessionManager::has_session and SessionManager::active_session_count
has_session(sess, bgs_id) == bgs_id \in DOMAIN sess /\ sess[bgs_id] # None
active_session_count(sess) == Cardinality({id \in DOMAIN sess : sess[id] # None})

\* a create_session that refuses only above the cap
create_session_AboveCap(sess, bgs_id, bgs_config) ==
    LET create(validation, converted) ==
       IF ~validation.valid
       THEN [undefined |-> FALSE, thrown |-> FALSE, success |-> FALSE,
             error |-> validation.error_message, sessions |-> sess]
       ELSE IF sess[bgs_id] # None
       THEN [undefined |-> FALSE, thrown |-> FALSE, success |-> FALSE,
             error |-> "already exists", sessions |-> sess]
       ELSE IF active_session_count(sess) > kMaxSessions
       THEN [undefined |-> FALSE, thrown |-> FALSE, success |-> FALSE,
             error |-> "Maximum session limit reached", sessions |-> sess]
       ELSE IF converted.undefined
       THEN [undefined |-> TRUE, thrown |-> TRUE, success |-> FALSE, error |-> "",
             sessions |-> sess]
       ELSE IF converted.err
       THEN [undefined |-> FALSE, thrown |-> TRUE, success |-> FALSE, error |-> "",
             sessions |-> sess]
       ELSE [undefined |-> FALSE, thrown |-> FALSE, success |-> TRUE, error |-> "",
             sessions |-> [sess EXCEPT ![bgs_id] =
                 Some(BgsSession(NewNode(converted.board, converted.turn, None),
                                 converted.padding_config))]]
    IN create(validate_bgs_config(bgs_config, ModelRows, ModelCols),
              convert_bgs_config_to_board(bgs_config, ModelRows, ModelCols))

\* a create_session without the check for an existing session
create_session_Overwrite(sess, bgs_id, bgs_config) ==
    LET create(validation, converted) ==
       IF ~validation.valid
       THEN [undefined |-> FALSE, thrown |-> FALSE, success |-> FALSE,
             error |-> validation.error_message, sessions |-> sess]
       ELSE IF converted.undefined
       THEN [undefined |-> TRUE, thrown |-> TRUE, success |-> FALSE, error |-> "",
             sessions |-> sess]
       ELSE IF converted.err
       THEN [undefined |-> FALSE, thrown |-> TRUE, success |-> FALSE, error |-> "",
             sessions |-> sess]
       ELSE [undefined |-> FALSE, thrown |-> FALSE, success |-> TRUE, error |-> "",
             sessions |-> [sess EXCEPT ![bgs_id] =
                 Some(BgsSession(NewNode(converted.board, converted.turn, None),
                                 converted.padding_config))]]
    IN create(validate_bgs_config(bgs_config, ModelRows, ModelCols),
              convert_bgs_config_to_board(bgs_config, ModelRows, ModelCols))

\* SessionManager::create_session: the sessions afterwards and the result;
\* thrown when the conversion of the config throws
create_session(sess, bgs_id, bgs_config) ==
    LET create(validation, converted) ==
       IF ~validation.valid
       THEN [undefined |-> FALSE, thrown |-> FALSE, success |-> FALSE,
             error |-> validation.error_message, sessions |-> sess]
       ELSE IF sess[bgs_id] # None
       THEN [undefined |-> FALSE, thrown |-> FALSE, success |-> FALSE,
             error |-> "already exists", sessions |-> sess]
       ELSE IF active_session_count(sess) >= kMaxSessions
       THEN [undefined |-> FALSE, thrown |-> FALSE, success |-> FALSE,
             error |-> "Maximum session limit reached", sessions |-> sess]
       ELSE IF converted.undefined
       THEN [undefined |-> TRUE, thrown |-> TRUE, success |-> FALSE, error |-> "",
             sessions |-> sess]
       ELSE IF converted.err
       THEN [undefined |-> FALSE, thrown |-> TRUE, success |-> FALSE, error |-> "",
             sessions |-> sess]
       ELSE [undefined |-> FALSE, thrown |-> FALSE, success |-> TRUE, error |-> "",
             sessions |-> [sess EXCEPT ![bgs_id] =
                 Some(BgsSession(NewNode(converted.board, converted.turn, None),
                                 converted.padding_config))]]
    IN create(validate_bgs_config(bgs_config, ModelRows, ModelCols),
              convert_bgs_config_to_board(bgs_config, ModelRows, ModelCols))

\* an end_session that erases every session
end_session_Clear(sess, bgs_id) ==
    IF sess[bgs_id] = None
    THEN [success |-> FALSE, error |-> "not found", sessions |-> sess]
    ELSE [success |-> TRUE, error |-> "", sessions |-> [id \in DOMAIN sess |-> None]]

\* SessionManager::end_session: the sessions afterwards and the result
end_session(sess, bgs_id) ==
    IF sess[bgs_id] = None
    THEN [success |-> FALSE, error |-> "not found", sessions |-> sess]
    ELSE [success |-> TRUE, error |-> "", sessions |-> [sess EXCEPT ![bgs_id] = None]]

\* SessionManager::get_session
get_session(bgs_id) == sessions[bgs_id]

\* a request slot: the handler's position and its request
\* (the handler reads expectedPly and move once it holds the lock: they are
\* drawn there), and the samples the handler has run
Request(pc, type, bgs_id, expected_ply, k) ==
    [pc |-> pc, type |-> type, bgsId |-> bgs_id, expectedPly |-> expected_ply, k |-> k]
IdleRequest == Request("idle", "none", "", 0, 0)

\* what a step writes: the response line, with the expectedPly of the
\* request it answers, the ply of the session when the handler checked it,
\* the samples the handler ran, whether the move string of the request is
\* the bestMove of the last evaluation of the position, the move force_move
\* applied if it did, and whether force_move kept an explored subtree
Written(line, expectedPly, plyBefore, sampled, wasBest, applied, kept) ==
    [line |-> line, expectedPly |-> expectedPly, plyBefore |-> plyBefore,
     sampled |-> sampled, wasBest |-> wasBest, applied |-> applied, kept |-> kept]
NoResponse == Written(NoLine, 0, 0, 0, FALSE, None, FALSE)

InitSessions ==
    /\ sessions = [id \in BgsIds |-> None]
    /\ reqs = [r \in Reqs |-> IdleRequest]
    /\ resp = NoResponse

-----------------------------------------------------------------------------
(* CachedPolicy (spec.md 4.7): a bounded cache around an evaluator *)

CacheCapacity == 1
NumSearchers == 3
MaxEvaluations == 3

Searchers == 1..NumSearchers

\* the key of an evaluation: (Board, Turn, PreviousPosition)
CacheKey(b, turn_, previous_position) == <<b, turn_, previous_position>>

\* the positions the searchers ask for
CacheKeys ==
    {CacheKey(BoardDefault(Cols, Rows, v), TurnOf("Red", "First"), None) :
        v \in {"Classic", "Standard"}}

\* the outcome of evaluation number `id` of the wrapped evaluator: its
\* Evaluation, or the error it raised
Evaluation(id, ok) == [id |-> id, ok |-> ok]

\* an entry of the inflight map: the evaluation and its subscribers
Inflight(id, subscribers) == [id |-> id, subscribers |-> subscribers]

IdleSearcher == [pc |-> "idle", key |-> None, joined |-> 0, got |-> None]

\* a lookup that does not consult the inflight map
cache_lookup_NoInflight(cache_, inflight_, key) ==
    IF cache_[key] # None THEN "hit" ELSE "start"

\* the critical section of a request: a cached key is answered, a key in
\* flight is joined, any other key starts the wrapped evaluator
cache_lookup(cache_, inflight_, key) ==
    IF cache_[key] # None THEN "hit"
    ELSE IF inflight_[key] # None THEN "join"
    ELSE "start"

\* the caches that can follow the insertion of a result: when the cache is
\* full some cached key is evicted
cache_insert(cache_, key, result) ==
    LET cached == {k \in CacheKeys : cache_[k] # None /\ k # key}
    IN IF Cardinality(cached) < CacheCapacity
       THEN {[cache_ EXCEPT ![key] = Some(result)]}
       ELSE {[cache_ EXCEPT ![victim] = None, ![key] = Some(result)] : victim \in cached}

InitCache ==
    /\ cache = [k \in CacheKeys |-> None]
    /\ inflight = [k \in CacheKeys |-> None]
    /\ searchers = [s \in Searchers |-> IdleSearcher]
    /\ underlying = [started |-> 0, running |-> [k \in CacheKeys |-> 0]]

-----------------------------------------------------------------------------
(* BatchedModel (spec.md 4.6): the batching layer *)

BatchSize == 2
NumCalls == 4
QueueSize == 3
NumInstances == 2
NumInputs == 2

Callers == 1..NumCalls
Instances == 1..NumInstances
Inputs == 1..NumInputs

\* InferenceResult{value, prior} of the model for one input
InferenceResult(input) == [value |-> input, prior |-> input]

\* a queued request: the waiter and its input
InferenceRequest(caller, input) == [caller |-> caller, input |-> input]

IdleCaller == [pc |-> "idle", input |-> 0, output |-> None]

\* the model run on a batch: one output per input, in input order
run_batch(batch) == [j \in 1..Len(batch) |-> InferenceResult(batch[j].input)]

\* a routing that hands every waiter the output of its neighbour
deliver_Shifted(batch, j) == run_batch(batch)[(j % Len(batch)) + 1]

\* the output routed to the waiter of index j of the batch
deliver(batch, j) == run_batch(batch)[j]

\* the coordinator dispatches a full batch, or a partial one when every
\* queued request has been drawn
can_dispatch(drawn_, queue_) ==
    drawn_ # <<>> /\ (Len(drawn_) = BatchSize \/ queue_ = <<>>)

InitBatch ==
    /\ request_queue = <<>>
    /\ drawn = <<>>
    /\ instances = [i \in Instances |-> <<>>]
    /\ dispatches = 0
    /\ callers = [c \in Callers |-> IdleCaller]

-----------------------------------------------------------------------------
(* MCTS::sample (spec.md 4.8): the sampling loop *)

max_parallel_samples == 4
MaxSamples == 6
MaxRootSamples == 8

\* a sample(n) call: samples launched and backpropagated so far, the root's
\* sample count and its value when the call started
SampleCall(pc, n, launched, done, root_samples_, before) ==
    [pc |-> pc, n |-> n, launched |-> launched, done |-> done,
     root_samples |-> root_samples_, before |-> before]

\* the samples between selection and backpropagation
in_flight(s) == s.launched - s.done

\* a loop that launches without looking at the samples in flight
can_launch_Unbounded(s) == s.pc = "running" /\ s.launched < s.n

\* another sample is launched while fewer than n were launched and fewer
\* than max_parallelism are in flight
can_launch(s) ==
    s.pc = "running" /\ s.launched < s.n /\ in_flight(s) < max_parallel_samples

InitSampling == sampling = SampleCall("idle", 0, 0, 0, 0, 0)

\* a call of an operation of the Board with its arguments; err tells that it
\* threw, result is what a query returned
BoardCall(op, player, action, err) ==
    [op |-> op, player |-> player, action |-> action, err |-> err, result |-> ""]
NoCall == BoardCall("none", "", PawnMove("", ""), FALSE)

\* a call of an evaluator: the policy with its parameters, the hint it got
\* and the edges of the evaluation it returned
PolicyCall(policy, params, previous_position, edges) ==
    [policy |-> policy, params |-> params, previous_position |-> previous_position,
     edges |-> edges]
NoPolicyCall == PolicyCall("none", <<>>, None, <<>>)

\* a padding configuration as create_padding_config returned it and the last
\* transform of a cell with it: the function, its argument and what it gave
Padding(created, config, op, cell, result) ==
    [created |-> created, config |-> config, op |-> op, cell |-> cell,
     result |-> result]
NoPadding ==
    Padding(FALSE, create_padding_config(ModelRows, ModelCols, ModelRows, ModelCols,
                                         "Standard"),
            "none", Cell(0, 0), None)

\* standard input with its lines and the number of lines read
Input(lines, read) == [lines |-> lines, read |-> read]
NoInput == Input(<<>>, 0)

\* a move, the pawn positions it was rendered from, its notation in model
\* coordinates, its notation in game coordinates and what the parser reads
Notation(rendered, config, cat_start, mouse_start, move, model_notation, game_notation, parsed) ==
    [rendered |-> rendered, config |-> config, cat_start |-> cat_start,
     mouse_start |-> mouse_start, move |-> move, model_notation |-> model_notation,
     game_notation |-> game_notation, parsed |-> parsed]
NoNotation ==
    Notation(FALSE, create_padding_config(1, 1, 1, 1, "Standard"), Cell(0, 0), Cell(0, 0),
             Move(PawnMove("Cat", "Right"), PawnMove("Cat", "Left")),
             [err |-> FALSE, text |-> <<>>], <<>>, None)

\* the threads of the CPUThreadPoolExecutor of main (--thread_pool_size) and
\* the request lines of a run
PoolSize == 2
NumLines == 3
Threads == 1..PoolSize
LineIds == 1..NumLines

\* a task of the executor's queue: the lambda of on_line for a request, or
\* the start or the continuation of its handler coroutine
Task(kind, id) == [kind |-> kind, id |-> id]

\* what a pool thread is doing and for which request
Thread(at, id) == [at |-> at, id |-> id]
IdleThread == Thread("idle", 0)

\* the pool: its FIFO queue, its threads, the position and the type of the
\* handler of each request, the holder of request_mutex, the lines read and
\* the responses written per request
Pool(queue, threads, handlers, types, mutex, read, written) ==
    [queue |-> queue, threads |-> threads, handlers |-> handlers, types |-> types,
     mutex |-> mutex, read |-> read, written |-> written]
NoPool ==
    Pool(<<>>, [t \in Threads |-> IdleThread], [i \in LineIds |-> "none"],
         [i \in LineIds |-> "none"], 0, 0, [i \in LineIds |-> 0])

InitEval ==
    /\ InitCache /\ InitBatch /\ InitSampling
    /\ validated = NoValidation
    /\ stdin = NoInput
    /\ last_call = NoCall
    /\ policy_call = NoPolicyCall
    /\ padding = NoPadding
    /\ rendering = NoNotation
    /\ pool = NoPool

-----------------------------------------------------------------------------
(* Reference notions the claims are stated with *)

\* the cells connected to the cells of `seen` by unblocked edges, `frontier`
\* being the cells of `seen` not yet expanded
RECURSIVE ReachFrom(_, _, _)
ReachFrom(b, seen, frontier) ==
    IF frontier = {} THEN seen
    ELSE LET open == {e \in frontier \X Directions : ~is_blocked(b, WallDir(e[1], e[2]))}
             new == {step(e[1], e[2]) : e \in open} \ seen
         IN ReachFrom(b, seen \cup new, new)

Connected(b, from, to) == to \in ReachFrom(b, {from}, {from})

BothConnected(b) ==
    /\ Connected(b, position(b, "Red"), goal(b, "Red"))
    /\ Connected(b, position(b, "Blue"), goal(b, "Blue"))

NumWalls(b) ==
    Cardinality({w \in Range(WallCandidates(b.m_columns, b.m_rows, 0, 0)) :
                    b.m_board[w.cell] \cap {WallBit("Red", w.type), WallBit("Blue", w.type)} # {}})

-----------------------------------------------------------------------------
(* SpecBoard: a Board played by legal actions, two actions per ply *)

Variants == {"Classic", "Standard"}

InitBoard ==
    /\ \E v \in Variants : board = BoardDefault(Cols, Rows, v)
    /\ turn = TurnOf("Red", "First")
    /\ nactions = 0
    /\ InitSessions
    /\ InitEval

\* do_action with a pawn move out of legal_directions
BoardTakeStep ==
    /\ nactions < MaxActions
    /\ \E pawn \in Pawns :
         \E d \in Range(legal_directions(board, turn.player, pawn)) :
            /\ board' = do_action(board, turn.player, PawnMove(pawn, d)).board
    /\ turn' = TurnNext(turn)
    /\ nactions' = nactions + 1
    /\ UNCHANGED <<sessionVars, evalVars>>

\* do_action with a wall out of legal_walls
BoardPlaceWall ==
    /\ nactions < MaxActions
    /\ \E w \in Range(legal_walls(board)) :
         board' = do_action(board, turn.player, WallAction(w)).board
    /\ turn' = TurnNext(turn)
    /\ nactions' = nactions + 1
    /\ UNCHANGED <<sessionVars, evalVars>>

NextBoard == BoardTakeStep \/ BoardPlaceWall

SpecBoard == InitBoard /\ [][NextBoard]_vars

-----------------------------------------------------------------------------
(* SpecCalls: a Board whose mutating operations are called with any
   arguments, the ones that throw included; do_action gets the walls at the
   caller's cat, place_wall every wall of the grid *)

MaxCalls == 3

\* Board::wall_owner
wall_owner(b, wall) ==
    IF ~is_blocked(b, wall) THEN None
    ELSE IF wall.type = "Down"
         THEN IF "has_red_down_wall" \in b.m_board[wall.cell] THEN Some("Red")
              ELSE IF "has_blue_down_wall" \in b.m_board[wall.cell] THEN Some("Blue")
              ELSE None
         ELSE IF "has_red_right_wall" \in b.m_board[wall.cell] THEN Some("Red")
              ELSE IF "has_blue_right_wall" \in b.m_board[wall.cell] THEN Some("Blue")
              ELSE None

\* the Right and Down walls of the cells of the grid, its last column and
\* last row included
GridWalls(b) == Range(WallCandidates(b.m_columns, b.m_rows, 0, 0))

\* one call of an operation; a call that throws leaves the board as the
\* operation left it
Called(op, player, action, outcome) ==
    /\ nactions < MaxCalls
    /\ board' = outcome.board
    /\ last_call' = BoardCall(op, player, action, outcome.err)
    /\ nactions' = nactions + 1
    /\ UNCHANGED <<turn, sessionVars, cacheVars, batchVars, sampling, validated, stdin,
                   policy_call, padding, rendering, pool>>

CallTakeStep(player, pawn, dir) ==
    Called("take_step", player, PawnMove(pawn, dir), take_step(board, player, pawn, dir))

CallPlaceWall(player, wall) ==
    Called("place_wall", player, WallAction(wall), place_wall(board, player, wall))

CallDoAction(player, action) ==
    Called("do_action", player, action, do_action(board, player, action))

NextCalls ==
    \/ \E player \in Players, pawn \in Pawns, dir \in Directions :
          CallTakeStep(player, pawn, dir)
    \/ \E player \in Players : \E wall \in GridWalls(board) :
          CallPlaceWall(player, wall)
    \/ \E player \in Players :
          \/ \E pawn \in Pawns, dir \in Directions :
                CallDoAction(player, PawnMove(pawn, dir))
          \/ \E type \in {"Right", "Down"} :
                CallDoAction(player, WallAction(Wall(position(board, player), type)))

SpecCalls == InitBoard /\ [][NextCalls]_vars

-----------------------------------------------------------------------------
(* SpecWinner: winner() on boards with the cats on any two cells, the mice
   in their corners and walls placed by Red *)

InitWinner ==
    /\ \E red_cat \in CellsOf(Cols, Rows), blue_cat \in CellsOf(Cols, Rows) :
          board = BoardCtor(Cols, Rows, red_cat, Cell(0, Rows - 1),
                            blue_cat, Cell(Cols - 1, Rows - 1), "Standard")
    /\ turn = TurnOf("Red", "First")
    /\ nactions = 0
    /\ InitSessions
    /\ InitEval

\* winner() is called on the board
CallWinner ==
    /\ nactions < MaxCalls
    /\ last_call' = [BoardCall("winner", "", PawnMove("", ""), FALSE)
                        EXCEPT !.result = winner(board)]
    /\ nactions' = nactions + 1
    /\ UNCHANGED <<board, turn, sessionVars, cacheVars, batchVars, sampling,
                   validated, stdin, policy_call, padding, rendering, pool>>

NextWinner ==
    \/ CallWinner
    \/ \E wall \in GridWalls(board) : CallPlaceWall("Red", wall)

SpecWinner == InitWinner /\ [][NextWinner]_vars

-----------------------------------------------------------------------------
(* SpecPolicy: the evaluators called on the boards of legal play, with the
   parameters of SimpleParamSets or the outputs of ModelOutputs and with any
   hint that names a neighbour of a pawn of the player to move *)

MaxPolicyActions == 2

\* the hints: none, or a pawn of the player and a cell next to it
Hints(b, player) ==
    {None} \cup
    {Some(PreviousPosition(e[1], step(pawn_position(b, player, e[1]), e[2]))) :
        e \in {x \in Pawns \X Directions :
                  step(pawn_position(b, player, x[1]), x[2])
                     \in CellsOf(b.m_columns, b.m_rows)}}

EvaluateSimple(params, previous_position) ==
    /\ policy_call' = PolicyCall("SimplePolicy", params, previous_position,
                                 SimplePolicy(params, board, turn, previous_position))
    /\ UNCHANGED <<boardVars, sessionVars, cacheVars, batchVars, sampling, validated,
                   stdin, last_call, padding, rendering, pool>>

EvaluateBatched(output, previous_position) ==
    /\ policy_call' = PolicyCall("BatchedModelPolicy", output, previous_position,
                                 BatchedModelPolicy(output, board, turn, previous_position))
    /\ UNCHANGED <<boardVars, sessionVars, cacheVars, batchVars, sampling, validated,
                   stdin, last_call, padding, rendering, pool>>

\* the board is played for up to MaxPolicyActions actions until an evaluator
\* is called on it
NextPolicy ==
    \/ policy_call = NoPolicyCall /\ nactions < MaxPolicyActions /\ BoardTakeStep
    \/ policy_call = NoPolicyCall /\ nactions < MaxPolicyActions /\ BoardPlaceWall
    \/ \E params \in SimpleParamSets : \E previous_position \in Hints(board, turn.player) :
          policy_call = NoPolicyCall /\ EvaluateSimple(params, previous_position)
    \/ \E output \in ModelOutputs : \E previous_position \in Hints(board, turn.player) :
          policy_call = NoPolicyCall /\ EvaluateBatched(output, previous_position)

SpecPolicy == InitBoard /\ [][NextPolicy]_vars

-----------------------------------------------------------------------------
(* SpecPadding: create_padding_config for the boards that pass validation
   on a model of PaddingModelRows x PaddingModelCols, and the transforms of
   cells with the configuration it returned *)

PaddingModelRows == 6
PaddingModelCols == 7

CreatePaddingConfig(game_rows, game_columns, variant) ==
    /\ padding' = Padding(TRUE,
                     create_padding_config(PaddingModelRows, PaddingModelCols,
                                           game_rows, game_columns, variant),
                     "create_padding_config", Cell(0, 0), None)
    /\ UNCHANGED <<boardVars, sessionVars, cacheVars, batchVars, sampling, validated,
                   stdin, last_call, policy_call, rendering, pool>>

\* a cell of the game goes to the model and back
TransformRoundTrip(game_cell) ==
    /\ padding.created
    /\ padding' = Padding(TRUE, padding.config, "round_trip", game_cell,
                     transform_to_game(transform_to_model(game_cell, padding.config),
                                       padding.config))
    /\ UNCHANGED <<boardVars, sessionVars, cacheVars, batchVars, sampling, validated,
                   stdin, last_call, policy_call, rendering, pool>>

TransformToGame(model_cell) ==
    /\ padding.created
    /\ padding' = Padding(TRUE, padding.config, "transform_to_game", model_cell,
                          transform_to_game(model_cell, padding.config))
    /\ UNCHANGED <<boardVars, sessionVars, cacheVars, batchVars, sampling, validated,
                   stdin, last_call, policy_call, rendering, pool>>

NextPadding ==
    \/ \E game_rows \in kMinBoardSide..PaddingModelRows,
          game_columns \in kMinBoardSide..PaddingModelCols,
          variant \in {"Classic", "Standard"} :
            CreatePaddingConfig(game_rows, game_columns, variant)
    \/ \E game_cell \in CellsOf(padding.config.game_columns, padding.config.game_rows) :
          TransformRoundTrip(game_cell)
    \/ \E model_cell \in CellsOf(padding.config.model_columns, padding.config.model_rows) :
          TransformToGame(model_cell)

InitPadding ==
    /\ board = BoardDefault(Cols, Rows, "Classic")
    /\ turn = TurnOf("Red", "First")
    /\ nactions = 0
    /\ InitSessions
    /\ InitEval

SpecPadding == InitPadding /\ [][NextPadding]_vars

-----------------------------------------------------------------------------
(* SpecNotation: a move of the player to act is rendered in model
   coordinates as handle_evaluate_position does (standard_notation with
   the rows of the model board), translated to game coordinates
   (transform_move_notation) and read back as handle_apply_move does
   (parse_move_notation with the same padding configuration) *)

\* the game sizes a configuration is made for
NotationGames == {<<4, 5>>, <<6, 7>>}

NotationConfigs ==
    {create_padding_config(PaddingModelRows, PaddingModelCols, g[1], g[2], variant) :
        g \in NotationGames, variant \in {"Classic", "Standard"}}

\* the cells a pawn can stand on: the game area and, in Classic, the bottom
\* row of the model
PawnCells(config) ==
    {c \in CellsOf(config.model_columns, config.model_rows) :
        \/ transform_to_game(c, config) # None
        \/ config.variant = "Classic" /\ c.row = config.model_rows - 1}

\* the mouse stands in the bottom right corner: of the model in Classic, of
\* the game area in Standard
MouseCells(config) ==
    IF config.variant = "Classic"
    THEN {Cell(config.model_columns - 1, config.model_rows - 1)}
    ELSE {transform_to_model(Cell(config.game_columns - 1, config.game_rows - 1), config)}

\* the model board of a session of Red with its pawns on the given cells
\* and the padding walls placed
NotationBoard(config, cat_start, mouse_start) ==
    place_padding_walls(
        BoardCtor(config.model_columns, config.model_rows, cat_start, mouse_start,
                  transform_to_model(Cell(config.game_columns - 1, 0), config),
                  transform_to_model(Cell(0, config.game_rows - 1), config), config.variant),
        config)

\* the two actions can be done one after the other on the board
Playable(b, move) ==
    LET then(first) == ~first.err /\ ~do_action(first.board, "Red", move.second).err
    IN then(do_action(b, "Red", move.first))

\* the actions of a move: the steps of the two pawns and the walls at the
\* cat and at the mouse
NotationActions(cat_start, mouse_start) ==
    {PawnMove(pawn, dir) : pawn \in Pawns, dir \in Directions}
    \cup {WallAction(Wall(c, t)) : c \in {cat_start, mouse_start}, t \in {"Right", "Down"}}

RenderMove(config, cat_start, mouse_start, move) ==
    LET translate(model_notation) ==
           LET game_notation == transform_move_notation(model_notation.text, config)
           IN rendering' = Notation(TRUE, config, cat_start, mouse_start, move,
                                   model_notation, game_notation,
                                   parse_move_notation(game_notation, config))
    IN /\ translate(standard_notation(move, cat_start, mouse_start, config.model_rows))
       /\ UNCHANGED <<boardVars, sessionVars, cacheVars, batchVars, sampling, validated,
                      stdin, last_call, policy_call, padding, pool>>

NextNotation ==
    /\ ~rendering.rendered
    /\ \E config \in NotationConfigs :
       \E cat_start \in PawnCells(config), mouse_start \in MouseCells(config) :
          \E first, second \in NotationActions(cat_start, mouse_start) :
             /\ Playable(NotationBoard(config, cat_start, mouse_start), Move(first, second))
             /\ RenderMove(config, cat_start, mouse_start, Move(first, second))

SpecNotation == InitPadding /\ [][NextNotation]_vars

-----------------------------------------------------------------------------
(* SpecPadded: play on the model board of a session whose game is smaller
   than the model.  The board is built as convert_bgs_config_to_board
   builds it: the pawns of the game moved to the model, the Classic goals
   in the bottom corners of the model, then place_padding_walls *)

\* the model and the games of the sessions (variant, rows, columns), scaled
\* down from the 8 x 8 model and the games of 4 x 4 and more
PaddedModelRows == 4
PaddedModelCols == 6
PaddedGames == {<<"Classic", 3, 3>>, <<"Standard", 3, 3>>, <<"Standard", 3, 4>>}

PaddedConfigs ==
    {create_padding_config(PaddedModelRows, PaddedModelCols, g[2], g[3], g[1]) :
        g \in PaddedGames}

\* the board of the session: the cats in the given game cells, the mice in
\* the bottom corners of the game
PaddedBoard(config, red_cat_game, blue_cat_game) ==
    LET red_mouse == IF config.variant = "Classic" THEN Cell(0, config.model_rows - 1)
                     ELSE transform_to_model(Cell(0, config.game_rows - 1), config)
        blue_mouse == IF config.variant = "Classic"
                      THEN Cell(config.model_columns - 1, config.model_rows - 1)
                      ELSE transform_to_model(Cell(config.game_columns - 1,
                                                   config.game_rows - 1), config)
    IN place_padding_walls(
          BoardCtor(config.model_columns, config.model_rows,
                    transform_to_model(red_cat_game, config), red_mouse,
                    transform_to_model(blue_cat_game, config), blue_mouse,
                    config.variant),
          config)

\* the red cat starts in a corner of the game or next to its bottom right
\* corner, the blue cat in the top right corner
InitPadded ==
    /\ \E config \in PaddedConfigs :
          \E red_cat_game \in {Cell(0, 0), Cell(0, config.game_rows - 1),
                               Cell(config.game_columns - 1, config.game_rows - 1),
                               Cell(config.game_columns - 2, config.game_rows - 1)} :
             /\ board = PaddedBoard(config, red_cat_game, Cell(config.game_columns - 1, 0))
             /\ padding = Padding(TRUE, config, "place_padding_walls", Cell(0, 0), None)
    /\ turn = TurnOf("Red", "First")
    /\ nactions = 0
    /\ InitSessions
    /\ InitCache /\ InitBatch /\ InitSampling
    /\ validated = NoValidation
    /\ stdin = NoInput
    /\ last_call = NoCall
    /\ policy_call = NoPolicyCall
    /\ rendering = NoNotation
    /\ pool = NoPool

\* do_action with a legal wall next to the cat of the player
PaddedPlaceWall ==
    /\ nactions < MaxActions
    /\ \E w \in Range(legal_walls(board)) :
         /\ w.cell \in {position(board, turn.player),
                        step(position(board, turn.player), "Left"),
                        step(position(board, turn.player), "Up")}
         /\ board' = do_action(board, turn.player, WallAction(w)).board
    /\ turn' = TurnNext(turn)
    /\ nactions' = nactions + 1
    /\ UNCHANGED <<sessionVars, evalVars>>

NextPadded == BoardTakeStep \/ PaddedPlaceWall

SpecPadded == InitPadded /\ [][NextPadded]_vars

-----------------------------------------------------------------------------
(* C1: every wall of legal_walls() is unblocked and, once placed, leaves   *)
(* the Red cat a path to Red's goal and the Blue cat a path to Blue's goal *)
C1_LegalWallsKeepPaths ==
    \A w \in Range(legal_walls(board)) :
        /\ ~is_blocked(board, w)
        /\ BothConnected(place_wall(board, turn.player, w).board)

\* a board where a bridge exists: an unblocked wall is refused, others are offered
C1_Witness ==
    /\ nactions > 0
    /\ \E w \in Range(WallCandidates(board.m_columns, board.m_rows, 0, 0)) :
          /\ ~is_blocked(board, w)
          /\ w \notin Range(legal_walls(board))
          /\ ~BothConnected(place_wall(board, turn.player, w).board)
    /\ legal_walls(board) # <<>>


-----------------------------------------------------------------------------
(* bgs_session.cpp : the handlers *)

\* a ply validation that lets an expectedPly behind the session's ply pass
PlyMatches_Lenient(session, expected_ply) == session.ply >= expected_ply

\* the ply validation of handle_evaluate_position and handle_apply_move
PlyMatches(session, expected_ply) == session.ply = expected_ply

\* the player to move, from the ply
current_player(session) == IF session.ply % 2 = 0 THEN "Red" ELSE "Blue"

\* std::clamp
clamp(v, lo, hi) == IF v < lo THEN lo ELSE IF hi < v THEN hi ELSE v

\* a conversion that reports the value of the player to move
p1_evaluation_Mover(player, raw_eval) == clamp(raw_eval, -1, 1)

\* the evaluation of handle_evaluate_position: the root value seen by
\* Player 1 (Red), clamped to [-1, 1]
p1_evaluation(player, raw_eval) ==
    clamp(IF player = "Red" THEN raw_eval ELSE -raw_eval, -1, 1)

\* the bestMove string of handle_evaluate_position for a move of the tree;
\* err when standard_notation throws
best_move_notation(session, move) ==
    LET b == session.mcts.board
        cat_pos == position(b, current_player(session))
        mouse_pos == mouse(b, current_player(session))
        to_game(model_notation) ==
           [err |-> model_notation.err,
            text |-> IF model_notation.err THEN <<>>
                     ELSE transform_move_notation(model_notation.text,
                                                  session.padding_config)]
    IN to_game(standard_notation(move, cat_pos, mouse_pos, b.m_rows))

\* handle_evaluate_position after the sampling: the response and whether an
\* exception leaves the handler without one
evaluate_position_result(session, bgs_id, raw_eval) ==
    LET respond(game_notation) ==
           IF game_notation.err
           THEN [thrown |-> TRUE, line |-> NoLine]
           ELSE [thrown |-> FALSE,
                 line |-> create_evaluate_response(
                              bgs_id, session.ply, game_notation.text,
                              p1_evaluation(current_player(session), raw_eval), TRUE, "")]
        evaluated(move_opt) ==
           IF move_opt = None
           THEN [thrown |-> FALSE,
                 line |-> create_evaluate_response(bgs_id, session.ply, <<>>, 0, FALSE,
                                                   "No legal move available")]
           ELSE respond(best_move_notation(session, move_opt[1]))
    IN evaluated(peek_best_move(session.mcts))

\* a handle_apply_move that counts the ply before force_move has succeeded
apply_move_result_PlyFirst(session, bgs_id, move_notation) ==
    LET counted == [session EXCEPT !.ply = @ + 1, !.evaluated = FALSE]
        apply(forced) ==
           IF forced.err
           THEN [session |-> counted, kept |-> FALSE, applied |-> None,
                 line |-> create_move_applied_response(bgs_id, counted.ply, FALSE,
                                                       "Failed to apply move")]
           ELSE [session |-> [counted EXCEPT !.mcts = forced.root],
                 kept |-> forced.kept, applied |-> forced.applied,
                 line |-> create_move_applied_response(bgs_id, counted.ply, TRUE, "")]
        parsed(move_opt) ==
           IF move_opt = None
           THEN [session |-> session, kept |-> FALSE, applied |-> None,
                 line |-> create_move_applied_response(bgs_id, session.ply, FALSE,
                                                       "Failed to parse move notation")]
           ELSE apply(force_move(session.mcts, move_opt[1]))
    IN parsed(parse_move_notation(move_notation, session.padding_config))

\* handle_apply_move after the ply validation: the session afterwards and
\* the response
apply_move_result(session, bgs_id, move_notation) ==
    LET apply(forced) ==
           IF forced.err
           THEN [session |-> session, kept |-> FALSE, applied |-> None,
                 line |-> create_move_applied_response(bgs_id, session.ply, FALSE,
                                                       "Failed to apply move")]
           ELSE [session |-> [session EXCEPT !.mcts = forced.root,
                                             !.ply = @ + 1,
                                             !.evaluated = FALSE],
                 kept |-> forced.kept, applied |-> forced.applied,
                 line |-> create_move_applied_response(bgs_id, session.ply + 1,
                                                       TRUE, "")]
        parsed(move_opt) ==
           IF move_opt = None
           THEN [session |-> session, kept |-> FALSE, applied |-> None,
                 line |-> create_move_applied_response(bgs_id, session.ply, FALSE,
                                                       "Failed to parse move notation")]
           ELSE apply(force_move(session.mcts, move_opt[1]))
    IN parsed(parse_move_notation(move_notation, session.padding_config))

-----------------------------------------------------------------------------
(* The move strings the apply_move requests carry *)

\* the component parse_single_action reads as the given action of the model
\* board: the inverse of its arithmetic
EncodeCell(prefix, model_cell, padding_config) ==
    Component(prefix, model_cell.column - padding_config.col_offset,
              model_cell.row - padding_config.row_offset + 1)

EncodeAction(b, player, action, padding_config) ==
    IF action.kind = "PawnMove"
    THEN EncodeCell(IF action.pawn = "Cat" THEN "C" ELSE "M",
                    step(pawn_position(b, player, action.pawn), action.dir),
                    padding_config)
    ELSE IF action.wall.type = "Right"
         THEN EncodeCell(">", action.wall.cell, padding_config)
         ELSE EncodeCell("^", step(action.wall.cell, "Down"), padding_config)

EncodeMove(session, move) ==
    LET b == session.mcts.board
        player == session.mcts.turn.player
    IN <<EncodeAction(b, player, move.first, session.padding_config),
         EncodeAction(do_action(b, player, move.first).board, player, move.second,
                      session.padding_config)>>

\* the moves of two legal actions from the root position
LegalMoves(session) ==
    LET b == session.mcts.board
        player == session.mcts.turn.player
    IN UNION {{Move(a1, a2) :
                 a2 \in Range(legal_actions(do_action(b, player, a1).board, player))} :
              a1 \in Range(legal_actions(b, player))}

\* the move strings: each legal move as the engine writes it and as the
\* parser reads it, and the empty string
MoveInputs(session) ==
    {best_move_notation(session, m).text : m \in LegalMoves(session)}
    \cup {EncodeMove(session, m) : m \in LegalMoves(session)}
    \cup {<<>>}

\* the bestMove of the last evaluation of the current position, if any
LastBestMove(session) ==
    IF session.evaluated /\ peek_best_move(session.mcts) # None
    THEN Some(best_move_notation(session, peek_best_move(session.mcts)[1]).text)
    ELSE None

-----------------------------------------------------------------------------
(* The session layer as a state machine *)

Init ==
    /\ InitSessions
    /\ board = BoardDefault(Cols, Rows, "Classic")
    /\ turn = TurnOf("Red", "First")
    /\ nactions = 0
    /\ InitEval

\* handle_start_game_session.  convert_bgs_config_to_board reads
\* initialState["pawns"] and initialState["walls"] of a const json with
\* operator[]: on a missing key that is an assertion failure or undefined
\* behaviour, so the read either ends in an exception, which the thread
\* pool task of main only logs, or ends the process and its sessions with
\* it; no response is written in either case
StartGameSession(bgs_id, bgs_config) ==
    LET start(created) ==
           \/ /\ sessions' = created.sessions
              /\ resp' = IF created.thrown THEN NoResponse
                         ELSE Written(create_session_started_response(
                                          bgs_id, created.success, created.error),
                                      0, 0, 0, FALSE, None, FALSE)
              /\ UNCHANGED reqs
           \/ /\ created.undefined
              /\ sessions' = [id \in DOMAIN sessions |-> None]
              /\ reqs' = [r \in Reqs |-> IdleRequest]
              /\ resp' = NoResponse
    IN /\ resp = NoResponse
       /\ start(create_session(sessions, bgs_id, bgs_config))
       /\ UNCHANGED <<boardVars, evalVars>>

\* a request of evaluate_position or apply_move arrives and its handler
\* calls get_session; a request takes the first free slot
Receive(r, type, bgs_id) ==
    /\ resp = NoResponse
    /\ reqs[r].pc = "idle"
    /\ \A q \in Reqs : q < r => reqs[q].pc # "idle"
    /\ (type = "evaluate_position" /\ sessions[bgs_id] # None) =>
          /\ root_samples(sessions[bgs_id][1].mcts) <= MaxReusedSamples
          /\ \A q \in Reqs : reqs[q].type # "evaluate_position"
    /\ IF get_session(bgs_id) = None
       THEN /\ \E expected_ply \in 0..MaxPly :
                 resp' = Written(
                    IF type = "evaluate_position"
                    THEN create_evaluate_response(bgs_id, expected_ply, <<>>, 0, FALSE,
                                                  "Session not found")
                    ELSE create_move_applied_response(bgs_id, expected_ply, FALSE,
                                                      "Session not found"),
                    expected_ply, 0, 0, FALSE, None, FALSE)
            /\ UNCHANGED reqs
       ELSE /\ reqs' = [reqs EXCEPT ![r] = Request("waiting", type, bgs_id, 0, 0)]
            /\ resp' = NoResponse
    /\ UNCHANGED <<sessions, boardVars, evalVars>>

\* a lock that is taken whoever holds it
CanLock_Always(session) == TRUE

\* std::lock_guard on request_mutex
CanLock(session) == session.request_mutex = 0

\* handle_evaluate_position: the lock and the ply validation
EvaluateLock(r, expected_ply) ==
    LET req == reqs[r]
        session == sessions[req.bgsId][1]
    IN /\ resp = NoResponse
       /\ req.pc = "waiting" /\ req.type = "evaluate_position"
       /\ CanLock(session)
       /\ IF ~PlyMatches(session, expected_ply)
          THEN /\ resp' = Written(create_evaluate_response(req.bgsId, session.ply, <<>>, 0,
                                                           FALSE, "Ply mismatch"),
                                  expected_ply, session.ply, 0, FALSE, None, FALSE)
               /\ reqs' = [reqs EXCEPT ![r] = IdleRequest]
               /\ UNCHANGED sessions
          ELSE /\ sessions' = [sessions EXCEPT ![req.bgsId][1].request_mutex = r]
               /\ reqs' = [reqs EXCEPT ![r].pc = "sampling",
                                        ![r].expectedPly = expected_ply]
               /\ resp' = NoResponse
       /\ UNCHANGED <<boardVars, evalVars>>

\* one sample of mcts->sample(samples_per_move)
EvaluateSample(r) ==
    LET req == reqs[r]
        session == sessions[req.bgsId][1]
    IN /\ resp = NoResponse
       /\ req.pc = "sampling" /\ req.k < SamplesPerMove
       /\ \E path \in SamplePaths(session.mcts) :
             sessions' = [sessions EXCEPT ![req.bgsId][1].mcts =
                                             Backpropagate(session.mcts, path)]
       /\ reqs' = [reqs EXCEPT ![r].k = @ + 1]
       /\ resp' = NoResponse
       /\ UNCHANGED <<boardVars, evalVars>>

\* a response step that commits to the best move: the root advances to the
\* node below the two actions
EvaluateRespond_Commit(r, raw_eval) ==
    LET req == reqs[r]
        session == sessions[req.bgsId][1]
        committed(root, i) ==
           IF i = 0 \/ peek_best_action(root.edges[i].child[1]) = 0 THEN root
           ELSE root.edges[i].child[1].edges[
                    peek_best_action(root.edges[i].child[1])].child[1]
        respond(result) ==
           /\ resp' = IF result.thrown THEN NoResponse
                      ELSE Written(result.line, req.expectedPly, session.ply, req.k,
                                   FALSE, None, FALSE)
           /\ sessions' = [sessions EXCEPT ![req.bgsId][1].request_mutex = 0,
                                           ![req.bgsId][1].evaluated =
                                                ~result.thrown /\ result.line.success,
                                           ![req.bgsId][1].mcts =
                                                committed(@, peek_best_action(@))]
    IN /\ resp = NoResponse
       /\ req.pc = "sampling" /\ req.k = SamplesPerMove
       /\ respond(evaluate_position_result(session, req.bgsId, raw_eval))
       /\ reqs' = [reqs EXCEPT ![r] = IdleRequest]
       /\ UNCHANGED <<boardVars, evalVars>>

\* handle_evaluate_position after the sampling: root_value, peek, notation,
\* response
EvaluateRespond(r, raw_eval) ==
    LET req == reqs[r]
        session == sessions[req.bgsId][1]
        respond(result) ==
           /\ resp' = IF result.thrown THEN NoResponse
                      ELSE Written(result.line, req.expectedPly, session.ply, req.k,
                                   FALSE, None, FALSE)
           /\ sessions' = [sessions EXCEPT ![req.bgsId][1].request_mutex = 0,
                                           ![req.bgsId][1].evaluated =
                                                ~result.thrown /\ result.line.success]
    IN /\ resp = NoResponse
       /\ req.pc = "sampling" /\ req.k = SamplesPerMove
       /\ respond(evaluate_position_result(session, req.bgsId, raw_eval))
       /\ reqs' = [reqs EXCEPT ![r] = IdleRequest]
       /\ UNCHANGED <<boardVars, evalVars>>

\* a handler that takes the lock and applies the move whatever ply the
\* request expected
ApplyLock_Unvalidated(r, expected_ply) ==
    LET req == reqs[r]
        session == sessions[req.bgsId][1]
    IN /\ resp = NoResponse
       /\ req.pc = "waiting" /\ req.type = "apply_move"
       /\ CanLock(session)
       /\ session.ply <= MaxPly
       /\ sessions' = [sessions EXCEPT ![req.bgsId][1].request_mutex = r]
       /\ reqs' = [reqs EXCEPT ![r].pc = "applying",
                                ![r].expectedPly = expected_ply]
       /\ resp' = NoResponse
       /\ UNCHANGED <<boardVars, evalVars>>

\* handle_apply_move: the lock and the ply validation
ApplyLock(r, expected_ply) ==
    LET req == reqs[r]
        session == sessions[req.bgsId][1]
    IN /\ resp = NoResponse
       /\ req.pc = "waiting" /\ req.type = "apply_move"
       /\ CanLock(session)
       /\ session.ply < MaxPly \/ ~PlyMatches(session, expected_ply)
       /\ IF ~PlyMatches(session, expected_ply)
          THEN /\ resp' = Written(create_move_applied_response(req.bgsId, session.ply,
                                                               FALSE, "Ply mismatch"),
                                  expected_ply, session.ply, 0, FALSE, None, FALSE)
               /\ reqs' = [reqs EXCEPT ![r] = IdleRequest]
               /\ UNCHANGED sessions
          ELSE /\ sessions' = [sessions EXCEPT ![req.bgsId][1].request_mutex = r]
               /\ reqs' = [reqs EXCEPT ![r].pc = "applying",
                                        ![r].expectedPly = expected_ply]
               /\ resp' = NoResponse
       /\ UNCHANGED <<boardVars, evalVars>>

\* handle_apply_move after the ply validation: parse, force_move, ply
ApplyMove(r) ==
    LET req == reqs[r]
        session == sessions[req.bgsId][1]
        respond(move_notation, result) ==
           /\ resp' = Written(result.line, req.expectedPly, session.ply, req.k,
                              LastBestMove(session) = Some(move_notation),
                              result.applied, result.kept)
           /\ sessions' = [sessions EXCEPT ![req.bgsId] =
                              Some([result.session EXCEPT !.request_mutex = 0])]
    IN /\ resp = NoResponse
       /\ req.pc = "applying"
       /\ \E move_notation \in MoveInputs(session) :
             respond(move_notation, apply_move_result(session, req.bgsId, move_notation))
       /\ reqs' = [reqs EXCEPT ![r] = IdleRequest]
       /\ UNCHANGED <<boardVars, evalVars>>

\* ResponseWriter::write: the response line of the last handler step goes out
WriteResponse ==
    /\ resp # NoResponse
    /\ resp' = NoResponse
    /\ UNCHANGED <<sessions, reqs, boardVars, evalVars>>

Next ==
    \/ WriteResponse
    \/ \E bgs_id \in BgsIds, bgs_config \in BgsConfigs : StartGameSession(bgs_id, bgs_config)
    \/ \E r \in Reqs, type \in {"evaluate_position", "apply_move"}, bgs_id \in BgsIds :
          Receive(r, type, bgs_id)
    \/ \E r \in Reqs, expected_ply \in 0..MaxPly : EvaluateLock(r, expected_ply)
    \/ \E r \in Reqs : EvaluateSample(r)
    \/ \E r \in Reqs, raw_eval \in RootValues : EvaluateRespond(r, raw_eval)
    \/ \E r \in Reqs, expected_ply \in 0..MaxPly : ApplyLock(r, expected_ply)
    \/ \E r \in Reqs : ApplyMove(r)

Spec == Init /\ [][Next]_vars

-----------------------------------------------------------------------------
(* The SessionManager under start_game_session and end_game_session       *)
(* requests for more ids than the cap allows                               *)

ManagerIndices == 1..(kMaxSessions + 1)
ManagerId(i) == "s" \o ToString(i)
ManagerIds == {ManagerId(i) : i \in ManagerIndices}

ActiveIndices == {i \in ManagerIndices : sessions[ManagerId(i)] # None}
FreeIndices == ManagerIndices \ ActiveIndices
Lowest(S) == CHOOSE i \in S : \A k \in S : i <= k
Highest(S) == CHOOSE i \in S : \A k \in S : i >= k

\* the ids of the requests: a new id is the one after the highest active
\* id, or the lowest free one when there is none after it; a start also
\* comes for the lowest active id; an end comes for a new id, for the
\* highest active id while few sessions are active or the cap is reached,
\* and for the first id at the cap
NewIndex ==
    IF ActiveIndices # {} /\ Highest(ActiveIndices) < kMaxSessions + 1
    THEN Highest(ActiveIndices) + 1
    ELSE Lowest(FreeIndices)

StartIndices == {NewIndex} \cup (IF ActiveIndices = {} THEN {} ELSE {Lowest(ActiveIndices)})

EndIndices ==
    {NewIndex}
    \cup (IF active_session_count(sessions) \in (1..3) \cup {kMaxSessions}
          THEN {Highest(ActiveIndices)} ELSE {})
    \cup (IF active_session_count(sessions) = kMaxSessions /\ 1 \in ActiveIndices
          THEN {1} ELSE {})

\* the config a request for an id carries: one valid config per id, or,
\* while few sessions are active or the cap is reached, an invalid one
ManagerConfigs(i) ==
    (IF active_session_count(sessions) \in (0..3) \cup {kMaxSessions}
     THEN InvalidConfigs ELSE {})
    \cup
    {bgs_config \in BgsConfigs :
        \/ /\ i % 3 = 0
           /\ bgs_config.variant = "classic" /\ bgs_config.boardHeight = 4
        \/ /\ i % 3 = 1
           /\ bgs_config.variant = "standard"
        \/ /\ i % 3 = 2
           /\ bgs_config.variant = "classic" /\ bgs_config.boardHeight = ModelRows}

InitManager ==
    /\ sessions = [id \in ManagerIds |-> None]
    /\ reqs = [r \in Reqs |-> IdleRequest]
    /\ resp = NoResponse
    /\ board = BoardDefault(Cols, Rows, "Classic")
    /\ turn = TurnOf("Red", "First")
    /\ nactions = 0
    /\ InitEval

\* handle_end_game_session
EndGameSession(bgs_id) ==
    LET finish(ended) ==
           /\ sessions' = ended.sessions
           /\ resp' = Written(create_session_ended_response(bgs_id, ended.success,
                                                            ended.error),
                              0, 0, 0, FALSE, None, FALSE)
    IN /\ resp = NoResponse
       /\ finish(end_session(sessions, bgs_id))
       /\ UNCHANGED <<reqs, boardVars, evalVars>>

NextManager ==
    \/ WriteResponse
    \/ \E i \in StartIndices : \E bgs_config \in ManagerConfigs(i) :
          StartGameSession(ManagerId(i), bgs_config)
    \/ \E i \in EndIndices : EndGameSession(ManagerId(i))

SpecManager == InitManager /\ [][NextManager]_vars

-----------------------------------------------------------------------------
(* The lifetime of a session: end_game_session among the handlers of      *)
(* evaluate_position and apply_move.  get_session hands a handler a plain *)
(* BgsSession* and end_session erases the unique_ptr of the map, so a     *)
(* handler that is past get_session keeps the address of a session that   *)
(* end_session may destroy.  The model starts after one start_game_session *)
(* and creates no further session, so that a request slot of an erased    *)
(* session always holds the address of the destroyed object                *)

InitLifetime ==
    /\ \E bgs_config \in BgsConfigs :
          LET created == create_session([id \in BgsIds |-> None],
                                        CHOOSE id \in BgsIds : TRUE, bgs_config)
          IN /\ created.success
             /\ sessions = created.sessions
    /\ reqs = [r \in Reqs |-> IdleRequest]
    /\ resp = NoResponse
    /\ board = BoardDefault(Cols, Rows, "Classic")
    /\ turn = TurnOf("Red", "First")
    /\ nactions = 0
    /\ InitEval

\* the handler of slot r is past get_session and its session is in the map
Live(r) == reqs[r].pc # "idle" /\ sessions[reqs[r].bgsId] # None

\* the handler of slot r is past get_session and its session was erased
Dangling(r) == reqs[r].pc # "idle" /\ sessions[reqs[r].bgsId] = None

\* the process ends: no session, no handler, no response
ProcessEnds ==
    /\ sessions' = [id \in DOMAIN sessions |-> None]
    /\ reqs' = [r \in Reqs |-> IdleRequest]
    /\ resp' = NoResponse

\* the next step of a handler whose session was destroyed: it locks
\* request_mutex or reads ply and mcts through the dangling BgsSession*.
\* That is undefined behaviour: the process ends, or the handler goes on
\* with what the freed memory holds and answers from it
UseAfterFree(r) ==
    /\ resp = NoResponse
    /\ Dangling(r)
    /\ \/ ProcessEnds
       \/ /\ \E ply \in 0..MaxPly, success \in BOOLEAN :
                resp' = Written(
                   IF reqs[r].type = "evaluate_position"
                   THEN create_evaluate_response(reqs[r].bgsId, ply, <<>>, 0, FALSE,
                                                 IF success THEN "No legal move available"
                                                 ELSE "Ply mismatch")
                   ELSE create_move_applied_response(reqs[r].bgsId, ply, success,
                                                     IF success THEN ""
                                                     ELSE "Ply mismatch"),
                   reqs[r].expectedPly, ply, reqs[r].k, FALSE, None, FALSE)
          /\ reqs' = [reqs EXCEPT ![r] = IdleRequest]
          /\ UNCHANGED sessions
    /\ UNCHANGED <<boardVars, evalVars>>

\* end_session erases a session whose request_mutex is held: the session,
\* its locked mutex and the MCTS that is sampling are destroyed, which is
\* undefined behaviour; EndGameSession is the outcome where the erase goes
\* through, this is the one where the process ends
EndLockedSession(bgs_id) ==
    /\ resp = NoResponse
    /\ sessions[bgs_id] # None
    /\ sessions[bgs_id][1].request_mutex # 0
    /\ ProcessEnds
    /\ UNCHANGED <<boardVars, evalVars>>

NextLifetime ==
    \/ WriteResponse
    \/ \E r \in Reqs, type \in {"evaluate_position", "apply_move"}, bgs_id \in BgsIds :
          Receive(r, type, bgs_id)
    \/ \E r \in Reqs, expected_ply \in 0..MaxPly : Live(r) /\ EvaluateLock(r, expected_ply)
    \/ \E r \in Reqs : Live(r) /\ EvaluateSample(r)
    \/ \E r \in Reqs, raw_eval \in RootValues : Live(r) /\ EvaluateRespond(r, raw_eval)
    \/ \E r \in Reqs, expected_ply \in 0..MaxPly : Live(r) /\ ApplyLock(r, expected_ply)
    \/ \E r \in Reqs : Live(r) /\ ApplyMove(r)
    \/ \E bgs_id \in BgsIds : EndGameSession(bgs_id)
    \/ \E bgs_id \in BgsIds : EndLockedSession(bgs_id)
    \/ \E r \in Reqs : UseAfterFree(r)

SpecLifetime == InitLifetime /\ [][NextLifetime]_vars

-----------------------------------------------------------------------------
(* The thread pool of main.  on_line adds one task per request line to the *)
(* pool; the task calls blockingWait on the handler coroutine, which is    *)
(* scheduled on the same pool; the handler takes request_mutex with a      *)
(* std::lock_guard, which blocks its thread while another handler holds    *)
(* it, and keeps it across co_await mcts->sample.  All requests are for    *)
(* one session.                                                            *)

poolFrame == <<boardVars, sessionVars, cacheVars, batchVars, sampling, validated, stdin,
               last_call, policy_call, padding, rendering>>

InitPool ==
    /\ InitSessions
    /\ board = BoardDefault(Cols, Rows, "Classic")
    /\ turn = TurnOf("Red", "First")
    /\ nactions = 0
    /\ InitEval

\* on_line: the line parses and thread_pool->add queues the lambda
ScheduleRequest(type) ==
    /\ pool.read < NumLines
    /\ pool' = [pool EXCEPT !.read = @ + 1,
                            !.types[pool.read + 1] = type,
                            !.queue = Append(@, Task("request", pool.read + 1))]
    /\ UNCHANGED poolFrame

\* a pool thread takes the lambda: handle_bgs_request(...).scheduleOn(pool)
\* queues the start of the coroutine on the pool and blockingWait blocks the
\* thread until the coroutine has finished
RunRequest(t) ==
    /\ pool.threads[t] = IdleThread
    /\ pool.queue # <<>>
    /\ Head(pool.queue).kind = "request"
    /\ pool' = [pool EXCEPT !.queue = Append(Tail(@), Task("handler", Head(pool.queue).id)),
                            !.threads[t] = Thread("blockingWait", Head(pool.queue).id),
                            !.handlers[Head(pool.queue).id] = "scheduled"]
    /\ UNCHANGED poolFrame

\* a pool thread takes the start or the continuation of a handler coroutine
RunHandler(t) ==
    /\ pool.threads[t] = IdleThread
    /\ pool.queue # <<>>
    /\ Head(pool.queue).kind = "handler"
    /\ pool' = [pool EXCEPT !.queue = Tail(@),
                            !.threads[t] = Thread("handler", Head(pool.queue).id),
                            !.handlers[Head(pool.queue).id] =
                                 IF @ = "scheduled" THEN "get_session" ELSE "resumed"]
    /\ UNCHANGED poolFrame

\* std::lock_guard on request_mutex: the thread is blocked while another
\* handler holds the mutex
LockSession(t) ==
    /\ pool.threads[t].at = "handler"
    /\ pool.handlers[pool.threads[t].id] = "get_session"
    /\ pool.mutex = 0
    /\ pool' = [pool EXCEPT !.mutex = pool.threads[t].id,
                            !.handlers[pool.threads[t].id] = "locked"]
    /\ UNCHANGED poolFrame

\* co_await mcts->sample(...): the coroutine is suspended with the mutex
\* held and the thread goes back to the pool
Suspend(t) ==
    /\ pool.threads[t].at = "handler"
    /\ pool.handlers[pool.threads[t].id] = "locked"
    /\ pool.types[pool.threads[t].id] = "evaluate_position"
    /\ pool' = [pool EXCEPT !.threads[t] = IdleThread,
                            !.handlers[pool.threads[t].id] = "suspended"]
    /\ UNCHANGED poolFrame

\* the sampling is over: the continuation of the handler is queued on the
\* pool, the executor of the coroutine
SampleReady(i) ==
    /\ pool.handlers[i] = "suspended"
    /\ pool' = [pool EXCEPT !.handlers[i] = "ready",
                            !.queue = Append(@, Task("handler", i))]
    /\ UNCHANGED poolFrame

\* co_return: the lock_guard releases the mutex and the coroutine ends
Finish(t) ==
    /\ pool.threads[t].at = "handler"
    /\ pool.handlers[pool.threads[t].id] \in {"locked", "resumed"}
    /\ pool' = [pool EXCEPT !.threads[t] = IdleThread,
                            !.mutex = 0,
                            !.handlers[pool.threads[t].id] = "done"]
    /\ UNCHANGED poolFrame

\* blockingWait returns and response_writer.write writes the response
WakeAndWrite(t) ==
    /\ pool.threads[t].at = "blockingWait"
    /\ pool.handlers[pool.threads[t].id] = "done"
    /\ pool' = [pool EXCEPT !.threads[t] = IdleThread,
                            !.handlers[pool.threads[t].id] = "answered",
                            !.written[pool.threads[t].id] = @ + 1]
    /\ UNCHANGED poolFrame

NextPool ==
    \/ \E type \in {"evaluate_position", "apply_move"} : ScheduleRequest(type)
    \/ \E t \in Threads : RunRequest(t)
    \/ \E t \in Threads : RunHandler(t)
    \/ \E t \in Threads : LockSession(t)
    \/ \E t \in Threads : Suspend(t)
    \/ \E i \in LineIds : SampleReady(i)
    \/ \E t \in Threads : Finish(t)
    \/ \E t \in Threads : WakeAndWrite(t)

SpecPool == InitPool /\ [][NextPool]_vars

\* every step that can be taken is taken in the end: the event loop reads
\* its lines, a thread of the pool that can go on goes on
FairSpecPool == SpecPool /\ WF_vars(NextPool)

-----------------------------------------------------------------------------
(* The two validation functions, called with configs around the limits *)

ValidationFunctions == {"validate_bgs_config", "validate_request"}
ValidationVariants == {"classic", "standard", "freestyle", ""}
ValidationWidths == (kMinBoardSide - 2)..(ModelCols + 2)
ValidationHeights == (kMinBoardSide - 2)..(ModelRows + 2)

\* one call: validate_bgs_config gets the config of a start_game_session,
\* validate_request the state of a single request, which holds its config
Validate(fn, variant, width, height) ==
    /\ validated' = ValidationCall(fn, variant, width, height,
          IF fn = "validate_bgs_config"
          THEN validate_bgs_config(
                   [variant |-> variant, boardWidth |-> width, boardHeight |-> height,
                    initialState |-> [pawns |-> <<>>, walls |-> <<>>]],
                   ModelRows, ModelCols)
          ELSE validate_request(
                   [config |-> [variant |-> variant, boardWidth |-> width,
                                boardHeight |-> height]],
                   ModelRows, ModelCols))
    /\ UNCHANGED <<boardVars, sessionVars, cacheVars, batchVars, sampling, stdin, last_call,
                 policy_call, padding, rendering, pool>>

NextValidate ==
    \E fn \in ValidationFunctions, variant \in ValidationVariants,
       width \in ValidationWidths, height \in ValidationHeights :
        Validate(fn, variant, width, height)

SpecValidate == Init /\ [][NextValidate]_vars

-----------------------------------------------------------------------------
(* Standard input: on_line parses each line and hands the request to its
   handler; the lines are session requests, a request of an unknown type
   and text that is not JSON *)

MaxLines == 3

\* a line of input: `json` holds the parsed value when the text parses
Line(text, json) == [text |-> text, json |-> json]
JsonRequest(type, bgs_id, config) == [type |-> type, bgsId |-> bgs_id, config |-> config]
Lines ==
    {Line("{\"type\":\"start_game_session\"", None),
     Line("start classic", Some(JsonRequest("start_game_session", "g1",
        BgsConfig("classic", 4, 4, <<0, 0>>, <<3, 0>>, <<0, 3>>, <<3, 3>>,
                  OpenSquare \cup OpenLeft(4) \cup OpenRight(4, 4) \cup OpenBottom(4, 4))))),
     Line("start freestyle", Some(JsonRequest("start_game_session", "g1",
        BgsConfig("freestyle", 4, 4, <<0, 0>>, <<3, 0>>, <<0, 3>>, <<3, 3>>, {})))),
     Line("end", Some(JsonRequest("end_game_session", "g1", <<>>))),
     Line("ping", Some(JsonRequest("ping", "g1", <<>>)))}

RECURSIVE SeqsOf(_, _)
SeqsOf(S, n) ==
    IF n = 0 THEN {<<>>}
    ELSE {Append(s, x) : s \in SeqsOf(S, n - 1), x \in S}

\* the outcome of a handler: the sessions afterwards and the response it
\* writes, NoLine when it writes none
Handled(sess, line) == [sessions |-> sess, line |-> line]

\* handle_bgs_request for the requests of the session manager
handle_bgs_request(sess, request) ==
    IF request.type = "start_game_session"
    THEN LET start(created) ==
                Handled(created.sessions,
                        IF created.thrown THEN NoLine
                        ELSE create_session_started_response(
                                 request.bgsId, created.success, created.error))
         IN start(create_session(sess, request.bgsId, request.config))
    ELSE IF request.type = "end_game_session"
    THEN LET finish(ended) ==
                Handled(ended.sessions,
                        create_session_ended_response(request.bgsId, ended.success,
                                                      ended.error))
         IN finish(end_session(sess, request.bgsId))
    ELSE Handled(sess, Response("error", request.bgsId, 0, <<>>, 0, FALSE,
                                "Unknown request type: " \o request.type))

\* an on_line that answers a line it cannot parse with an error
on_line_Answer(sess, line) ==
    IF line.json = None
    THEN Handled(sess, Response("error", "", 0, <<>>, 0, FALSE, "Failed to parse JSON"))
    ELSE handle_bgs_request(sess, line.json[1])

\* an on_line that stops serving after a line it cannot parse
on_line_Reset(sess, line) ==
    IF line.json = None
    THEN Handled([id \in DOMAIN sess |-> None], NoLine)
    ELSE handle_bgs_request(sess, line.json[1])

\* on_line: a line that does not parse is logged and dropped, any other is
\* handled
on_line(sess, line) ==
    IF line.json = None
    THEN Handled(sess, NoLine)
    ELSE handle_bgs_request(sess, line.json[1])

InitLines ==
    /\ InitSessions
    /\ board = BoardDefault(Cols, Rows, "Classic")
    /\ turn = TurnOf("Red", "First")
    /\ nactions = 0
    /\ InitCache /\ InitBatch /\ InitSampling
    /\ validated = NoValidation
    /\ last_call = NoCall
    /\ policy_call = NoPolicyCall
    /\ padding = NoPadding
    /\ rendering = NoNotation
    /\ pool = NoPool
    /\ \E lines \in SeqsOf(Lines, MaxLines) : stdin = Input(lines, 0)

\* the reader hands the next line to on_line and the handler runs
ReadLine ==
    LET handled(outcome) ==
           /\ sessions' = outcome.sessions
           /\ resp' = Written(outcome.line, 0, 0, 0, FALSE, None, FALSE)
    IN /\ resp = NoResponse
       /\ stdin.read < Len(stdin.lines)
       /\ handled(on_line(sessions, stdin.lines[stdin.read + 1]))
       /\ stdin' = Input(stdin.lines, stdin.read + 1)
       /\ UNCHANGED <<reqs, boardVars, cacheVars, batchVars, sampling, validated,
                      last_call, policy_call, padding, rendering, pool>>

NextLines == WriteResponse \/ ReadLine

SpecLines == InitLines /\ [][NextLines]_vars

-----------------------------------------------------------------------------
(* CachedPolicy: the state machine of its requests *)

InitIdle ==
    /\ board = BoardDefault(Cols, Rows, "Classic")
    /\ turn = TurnOf("Red", "First")
    /\ nactions = 0
    /\ InitSessions
    /\ InitEval

\* a searcher asks for the evaluation of a key
CacheRequest(s, key) ==
    /\ searchers[s].pc = "idle"
    /\ LET how == cache_lookup(cache, inflight, key)
       IN CASE how = "hit" ->
                 /\ searchers' = [searchers EXCEPT ![s] =
                        [pc |-> "done", key |-> Some(key), joined |-> 0,
                         got |-> cache[key]]]
                 /\ UNCHANGED <<cache, inflight, underlying>>
            [] how = "join" ->
                 /\ searchers' = [searchers EXCEPT ![s] =
                        [pc |-> "waiting", key |-> Some(key),
                         joined |-> inflight[key][1].id, got |-> None]]
                 /\ inflight' = [inflight EXCEPT ![key] =
                        Some(Inflight(@[1].id, @[1].subscribers \union {s}))]
                 /\ UNCHANGED <<cache, underlying>>
            [] how = "start" ->
                 /\ underlying.started < MaxEvaluations
                 /\ searchers' = [searchers EXCEPT ![s] =
                        [pc |-> "waiting", key |-> Some(key),
                         joined |-> underlying.started + 1, got |-> None]]
                 /\ inflight' = [inflight EXCEPT ![key] =
                        Some(Inflight(underlying.started + 1, {s}))]
                 /\ underlying' = [started |-> underlying.started + 1,
                                   running |-> [underlying.running EXCEPT ![key] = @ + 1]]
                 /\ UNCHANGED cache
    /\ UNCHANGED <<boardVars, sessionVars, validated, stdin, last_call, policy_call,
                   padding, batchVars, sampling, rendering, pool>>

\* the wrapped evaluator finishes the evaluation in flight for a key, with
\* an Evaluation or an error: every subscriber receives it, and an
\* Evaluation moves to the cache
CacheResolve(key, ok) ==
    /\ inflight[key] # None
    /\ LET entry == inflight[key][1]
           result == Evaluation(entry.id, ok)
       IN /\ searchers' = [s \in Searchers |->
                 IF s \in entry.subscribers
                 THEN [searchers[s] EXCEPT !.pc = "done", !.got = Some(result)]
                 ELSE searchers[s]]
          /\ inflight' = [inflight EXCEPT ![key] = None]
          /\ underlying' = [underlying EXCEPT !.running[key] = @ - 1]
          /\ IF ok THEN cache' \in cache_insert(cache, key, result)
             ELSE UNCHANGED cache
    /\ UNCHANGED <<boardVars, sessionVars, validated, stdin, last_call, policy_call,
                   padding, batchVars, sampling, rendering, pool>>

\* the searcher uses the result and is ready to ask again
CacheReturn(s) ==
    /\ searchers[s].pc = "done"
    /\ searchers' = [searchers EXCEPT ![s] = IdleSearcher]
    /\ UNCHANGED <<cache, inflight, underlying>>
    /\ UNCHANGED <<boardVars, sessionVars, validated, stdin, last_call, policy_call,
                   padding, batchVars, sampling, rendering, pool>>

NextCache ==
    \/ \E s \in Searchers, key \in CacheKeys : CacheRequest(s, key)
    \/ \E key \in CacheKeys, ok \in BOOLEAN : CacheResolve(key, ok)
    \/ \E s \in Searchers : CacheReturn(s)

SpecCache == InitIdle /\ [][NextCache]_vars

-----------------------------------------------------------------------------
(* BatchedModel: the state machine of inference calls *)

\* a caller enqueues its input; a full queue makes it wait
Inference(c, input) ==
    /\ callers[c].pc = "idle"
    /\ Len(request_queue) < QueueSize
    /\ request_queue' = Append(request_queue, InferenceRequest(c, input))
    /\ callers' = [callers EXCEPT ![c] = [pc |-> "queued", input |-> input, output |-> None]]
    /\ UNCHANGED <<drawn, instances, dispatches>>
    /\ UNCHANGED <<boardVars, sessionVars, validated, stdin, last_call, policy_call,
                   padding, cacheVars, sampling, rendering, pool>>

\* the coordinator draws the next request into the batch
Draw ==
    /\ request_queue # <<>>
    /\ Len(drawn) < BatchSize
    /\ drawn' = Append(drawn, Head(request_queue))
    /\ request_queue' = Tail(request_queue)
    /\ UNCHANGED <<instances, dispatches, callers>>
    /\ UNCHANGED <<boardVars, sessionVars, validated, stdin, last_call, policy_call,
                   padding, cacheVars, sampling, rendering, pool>>

\* the coordinator hands the batch to an idle model instance
Dispatch(i) ==
    /\ can_dispatch(drawn, request_queue)
    /\ instances[i] = <<>>
    /\ \A j \in Instances : j < i => instances[j] # <<>>
    /\ instances' = [instances EXCEPT ![i] = drawn]
    /\ drawn' = <<>>
    /\ dispatches' = dispatches + 1
    /\ UNCHANGED <<request_queue, callers>>
    /\ UNCHANGED <<boardVars, sessionVars, validated, stdin, last_call, policy_call,
                   padding, cacheVars, sampling, rendering, pool>>

\* a model instance finishes its batch: every waiter gets its output
Complete(i) ==
    /\ instances[i] # <<>>
    /\ LET batch == instances[i]
       IN callers' = [c \in Callers |->
              IF \E j \in 1..Len(batch) : batch[j].caller = c
              THEN [callers[c] EXCEPT
                       !.pc = "done",
                       !.output = Some(deliver(batch,
                                     CHOOSE j \in 1..Len(batch) : batch[j].caller = c))]
              ELSE callers[c]]
    /\ instances' = [instances EXCEPT ![i] = <<>>]
    /\ UNCHANGED <<request_queue, drawn, dispatches>>
    /\ UNCHANGED <<boardVars, sessionVars, validated, stdin, last_call, policy_call,
                   padding, cacheVars, sampling, rendering, pool>>

NextBatch ==
    \/ \E c \in Callers, input \in Inputs : Inference(c, input)
    \/ Draw
    \/ \E i \in Instances : Dispatch(i)
    \/ \E i \in Instances : Complete(i)

SpecBatch == InitIdle /\ [][NextBatch]_vars

-----------------------------------------------------------------------------
(* MCTS::sample: the state machine of the sampling loop *)

\* sample(n) is called on an MCTS that is not sampling
SampleStart(n) ==
    /\ sampling.pc \in {"idle", "completed"}
    /\ sampling.root_samples + n <= MaxRootSamples
    /\ sampling' = SampleCall("running", n, 0, 0, sampling.root_samples,
                              sampling.root_samples)
    /\ UNCHANGED <<boardVars, sessionVars, validated, stdin, last_call, policy_call,
                   padding, cacheVars, batchVars, rendering, pool>>

\* a sample is launched: it selects a leaf and waits for the evaluator
SampleLaunch ==
    /\ can_launch(sampling)
    /\ sampling' = [sampling EXCEPT !.launched = @ + 1]
    /\ UNCHANGED <<boardVars, sessionVars, validated, stdin, last_call, policy_call,
                   padding, cacheVars, batchVars, rendering, pool>>

\* the evaluation of a sample in flight arrives: the leaf is expanded and
\* the value backpropagated to the root
SampleBackpropagate ==
    /\ sampling.pc = "running"
    /\ in_flight(sampling) > 0
    /\ sampling' = [sampling EXCEPT !.done = @ + 1, !.root_samples = @ + 1]
    /\ UNCHANGED <<boardVars, sessionVars, validated, stdin, last_call, policy_call,
                   padding, cacheVars, batchVars, rendering, pool>>

\* every sample is backpropagated: the task of sample(n) completes
SampleComplete ==
    /\ sampling.pc = "running"
    /\ sampling.done >= sampling.n
    /\ in_flight(sampling) = 0
    /\ sampling' = [sampling EXCEPT !.pc = "completed"]
    /\ UNCHANGED <<boardVars, sessionVars, validated, stdin, last_call, policy_call,
                   padding, cacheVars, batchVars, rendering, pool>>

NextSample ==
    \/ \E n \in 1..MaxSamples : SampleStart(n)
    \/ SampleLaunch
    \/ SampleBackpropagate
    \/ SampleComplete

SpecSample == InitIdle /\ [][NextSample]_vars

\* the worker pool runs every task that can run, and evaluations return
FairSpecSample ==
    /\ SpecSample
    /\ WF_vars(SampleLaunch)
    /\ WF_vars(SampleBackpropagate)
    /\ WF_vars(SampleComplete)

-----------------------------------------------------------------------------
(* Reading the last step *)

\* the only session id of the model
TheId == CHOOSE id \in BgsIds : TRUE
HasSession == sessions[TheId] # None
TheSession == sessions[TheId][1]

\* the line of the last step answers an evaluate_position / apply_move
\* request that reached the ply validation
AnsweredEvaluate ==
    resp.line.type = "evaluate_response" /\ resp.line.error # "Session not found"
AnsweredApply ==
    resp.line.type = "move_applied" /\ resp.line.error # "Session not found"

\* this step is the one where a handler of apply_move answers
ApplyStep == resp = NoResponse /\ resp'.line.type = "move_applied"
             /\ resp'.line.error # "Session not found"

(* C2: a request whose expectedPly differs from the session's ply is       *)
(* answered success=false with a "Ply mismatch" error and the session's    *)
(* actual ply; its handler has run no sample and applied no move, and the  *)
(* session's ply is what it was                                            *)
C2_PlyMismatchRejected ==
    ((AnsweredEvaluate \/ AnsweredApply) /\ resp.expectedPly # resp.plyBefore) =>
        /\ ~resp.line.success
        /\ resp.line.error = "Ply mismatch"
        /\ resp.line.ply = resp.plyBefore
        /\ resp.sampled = 0
        /\ resp.applied = None
        /\ TheSession.ply = resp.plyBefore

\* an evaluate_position with a stale expectedPly after a move was applied
C2_Witness ==
    /\ AnsweredEvaluate
    /\ resp.line.error = "Ply mismatch"
    /\ resp.expectedPly = 0 /\ resp.plyBefore = 1

(* C3: the ply of a session starts at 0 and changes only in a step of      *)
(* apply_move, by exactly one; apply_move answers success with the new ply *)
(* exactly when the notation parsed and force_move succeeded, and          *)
(* otherwise answers success=false with the ply unchanged                  *)
C3_PlyStep ==
    /\ (~HasSession /\ HasSession') => TheSession'.ply = 0
    /\ (HasSession /\ HasSession') =>
          /\ TheSession'.ply \in {TheSession.ply, TheSession.ply + 1}
          /\ (TheSession'.ply # TheSession.ply) => (ApplyStep /\ resp'.line.success)
          /\ ApplyStep =>
                /\ resp'.line.success <=> (resp'.applied # None)
                /\ resp'.line.success => /\ TheSession'.ply = TheSession.ply + 1
                                         /\ resp'.line.ply = TheSession'.ply
                /\ ~resp'.line.success => /\ TheSession'.ply = TheSession.ply
                                          /\ resp'.line.ply = TheSession.ply

C3_PlyAdvancesByOne == [][C3_PlyStep]_vars

\* a move was applied: the response carries ply 1
C3_Witness ==
    AnsweredApply /\ resp.line.success /\ resp.line.ply = 1 /\ TheSession.ply = 1

(* C4: the handlers of one session exclude each other: at most one request *)
(* is between its ply validation and its response, it is the holder of the *)
(* session mutex, and while it is there no other step changes the session  *)
Locked(r) == reqs[r].pc \in {"sampling", "applying"}

C4_OneHolder ==
    HasSession =>
        /\ Cardinality({r \in Reqs : Locked(r)}) <= 1
        /\ \A r \in Reqs : Locked(r) <=> TheSession.request_mutex = r

C4_NoInterference ==
    \A r \in Reqs :
        (Locked(r) /\ reqs'[r] = reqs[r]) => sessions' = sessions

C4_Serialized == [](C4_OneHolder) /\ [][C4_NoInterference]_vars

\* an apply_move waits while an evaluate_position is sampling
C4_Witness ==
    \E r, q \in Reqs :
        /\ reqs[r].pc = "sampling" /\ reqs[r].k > 0
        /\ reqs[q].pc = "waiting" /\ reqs[q].type = "apply_move"

(* C5: apply_move with the same ply and the bestMove string that a         *)
(* successful evaluate_position returned for the position succeeds and     *)
(* answers the next ply                                                    *)
C5_BestMoveApplies ==
    (AnsweredApply /\ resp.wasBest /\ resp.expectedPly = resp.plyBefore) =>
        /\ resp.line.success
        /\ resp.line.ply = resp.plyBefore + 1

(* C6: the Move that peek_best_move returns to handle_evaluate_position    *)
(* has a first action that is legal on the root board for the player to    *)
(* move and a second action that is legal on the board after the first     *)
C6_BestMoveLegal ==
    (AnsweredEvaluate /\ resp.line.success) =>
        LET root == TheSession.mcts
            move == peek_best_move(root)[1]
            after == do_action(root.board, root.turn.player, move.first).board
        IN /\ peek_best_move(root) # None
           /\ move.first \in Range(legal_actions(root.board, root.turn.player))
           /\ move.second \in Range(legal_actions(after, TurnNext(root.turn).player))

\* an evaluation whose best move is a pawn move followed by a wall
C6_Witness ==
    /\ AnsweredEvaluate /\ resp.line.success
    /\ peek_best_move(TheSession.mcts)[1].first.kind = "PawnMove"
    /\ peek_best_move(TheSession.mcts)[1].second.kind = "Wall"

(* C10: a successful force_move leaves as root the position two actions    *)
(* after the old root; when the move was explored the root is the explored *)
(* grandchild with its statistics (root_samples > 0), otherwise a new node *)
(* without samples; a move that is not legal is refused and the tree stays *)
Explored(root, move) ==
    \E i \in 1..Len(root.edges) :
        /\ root.edges[i].action = move.first
        /\ root.edges[i].child # None
        /\ \E j \in 1..Len(root.edges[i].child[1].edges) :
              /\ root.edges[i].child[1].edges[j].action = move.second
              /\ root.edges[i].child[1].edges[j].child # None

C10_ForceStep ==
    (ApplyStep /\ resp'.expectedPly = resp'.plyBefore) =>
        LET old == TheSession.mcts
            new == TheSession'.mcts
        IN IF resp'.line.success
           THEN LET move == resp'.applied[1]
                    mid == do_action(old.board, old.turn.player, move.first)
                    end == do_action(mid.board, TurnNext(old.turn).player, move.second)
                IN /\ ~mid.err /\ ~end.err
                   /\ is_legal_action(old.board, old.turn.player, move.first)
                   /\ is_legal_action(mid.board, TurnNext(old.turn).player, move.second)
                   /\ new.board = end.board
                   /\ new.turn = TurnNext(TurnNext(old.turn))
                   /\ IF Explored(old, move)
                      THEN /\ root_samples(new) > 0
                           /\ \E i \in 1..Len(old.edges) :
                                 /\ old.edges[i].action = move.first
                                 /\ old.edges[i].child # None
                                 /\ \E j \in 1..Len(old.edges[i].child[1].edges) :
                                       /\ old.edges[i].child[1].edges[j].action = move.second
                                       /\ old.edges[i].child[1].edges[j].child = Some(new)
                      ELSE /\ root_samples(new) = 0
                           /\ new.edges = <<>>
           ELSE new = old

C10_ForceMoveAdvances == [][C10_ForceStep]_vars

\* a move that the evaluation explored was applied: the subtree was kept
C10_Witness ==
    /\ AnsweredApply /\ resp.line.success /\ resp.kept
    /\ root_samples(TheSession.mcts) > 0

(* C7: while a key is neither cached nor resolved the wrapped evaluator    *)
(* runs exactly one evaluation for it, started by the first requester;     *)
(* every searcher that asks meanwhile is subscribed to that evaluation,    *)
(* and when it resolves all of them receive its result, or its error       *)
Waiting(s, key) == searchers[s].pc = "waiting" /\ searchers[s].key = Some(key)

C7_OneEvaluation ==
    \A key \in CacheKeys :
        /\ underlying.running[key] <= 1
        /\ (underlying.running[key] = 1) <=> (inflight[key] # None)
        /\ inflight[key] # None => cache[key] = None
        /\ \A s \in Searchers :
              Waiting(s, key) =>
                 /\ inflight[key] # None
                 /\ s \in inflight[key][1].subscribers
                 /\ searchers[s].joined = inflight[key][1].id

C7_SharedResult ==
    \A key \in CacheKeys :
        /\ (underlying'.running[key] > underlying.running[key]) =>
              (cache[key] = None /\ inflight[key] = None)
        /\ \A s \in Searchers :
              (Waiting(s, key) /\ ~Waiting(s, key)') =>
                 /\ searchers'[s].pc = "done"
                 /\ searchers'[s].got # None
                 /\ searchers'[s].got[1].id = searchers[s].joined
                 /\ \A o \in Searchers :
                       Waiting(o, key) => searchers'[o].got = searchers'[s].got

C7_AtMostOneInflight == [](C7_OneEvaluation) /\ [][C7_SharedResult]_vars

\* two searchers received the error of the one evaluation they shared
C7_Witness ==
    \E s, o \in Searchers :
        /\ s # o
        /\ searchers[s].pc = "done" /\ searchers[o].pc = "done"
        /\ searchers[s].key = searchers[o].key
        /\ searchers[s].joined > 0
        /\ searchers[s].joined = searchers[o].joined
        /\ searchers[s].got = searchers[o].got
        /\ ~searchers[s].got[1].ok
        /\ underlying.started = 1

(* C8 as stated: NumCalls concurrent inference calls with batches of       *)
(* BatchSize are served by exactly NumCalls / BatchSize dispatches, no     *)
(* batch is larger than BatchSize, and every caller receives the output of *)
(* its own input                                                           *)
AllDone == \A c \in Callers : callers[c].pc = "done"

BatchesBounded ==
    /\ Len(drawn) <= BatchSize
    /\ \A i \in Instances : Len(instances[i]) <= BatchSize

OwnOutputs ==
    \A c \in Callers :
        callers[c].pc = "done" => callers[c].output = Some(InferenceResult(callers[c].input))

C8_ExactDispatches ==
    /\ BatchesBounded
    /\ OwnOutputs
    /\ AllDone => dispatches = NumCalls \div BatchSize

(* C8: no batch is larger than BatchSize, every caller receives the output *)
(* of its own input, and the calls are served by at least                  *)
(* ceil(NumCalls / BatchSize) and at most NumCalls dispatches: a partial   *)
(* batch is dispatched whenever the queue is drained                       *)
C8_Coalescing ==
    /\ BatchesBounded
    /\ OwnOutputs
    /\ AllDone => /\ dispatches >= (NumCalls + BatchSize - 1) \div BatchSize
                  /\ dispatches <= NumCalls

\* all calls answered by full batches that mix different inputs
C8_Witness ==
    /\ AllDone
    /\ dispatches = NumCalls \div BatchSize
    /\ \E c, d \in Callers : callers[c].input # callers[d].input

(* C9: at most max_parallelism samples of the MCTS are in flight at any    *)
(* moment, and under fair scheduling a call of sample(n) completes, the    *)
(* root then counting exactly n samples more than when it was called       *)
C9_Bounded ==
    /\ in_flight(sampling) >= 0
    /\ in_flight(sampling) <= max_parallel_samples
    /\ sampling.pc = "completed" =>
          /\ sampling.done = sampling.n
          /\ sampling.root_samples = sampling.before + sampling.n

C9_Completes ==
    \A n \in 1..MaxSamples, before \in 0..MaxRootSamples :
        (sampling.pc = "running" /\ sampling.n = n /\ sampling.before = before)
            ~> (sampling.pc = "completed" /\ sampling.n = n
                /\ sampling.root_samples = before + n)

C9_SampleCompletes == [](C9_Bounded) /\ C9_Completes

\* max_parallelism samples in flight with more to launch
C9_Witness ==
    /\ sampling.pc = "running"
    /\ in_flight(sampling) = max_parallel_samples
    /\ sampling.launched < sampling.n

(* C11: start_game_session with the id of an active session and a config  *)
(* that passes validation answers success=false with the "already exists" *)
(* error, and the sessions (the ply, board and tree of the existing one,  *)
(* and their number) stay as they were                                    *)
C11_DuplicateStep ==
    \A bgs_config \in BgsConfigs :
        (/\ HasSession
         /\ validate_bgs_config(bgs_config, ModelRows, ModelCols).valid
         /\ StartGameSession(TheId, bgs_config)) =>
            /\ resp'.line = create_session_started_response(TheId, FALSE, "already exists")
            /\ sessions' = sessions
            /\ active_session_count(sessions') = active_session_count(sessions)

C12_Capped == active_session_count(sessions) <= kMaxSessions

C12_CreateStep ==
    \A i \in StartIndices : \A bgs_config \in ManagerConfigs(i) :
        (/\ ~has_session(sessions, ManagerId(i))
         /\ validate_bgs_config(bgs_config, ModelRows, ModelCols).valid
         /\ resp'.line.bgsId = ManagerId(i)
         /\ StartGameSession(ManagerId(i), bgs_config)) =>
            IF active_session_count(sessions) >= kMaxSessions
            THEN /\ resp'.line = create_session_started_response(
                                     ManagerId(i), FALSE, "Maximum session limit reached")
                 /\ sessions' = sessions
            ELSE /\ resp'.line = create_session_started_response(ManagerId(i), TRUE, "")
                 /\ has_session(sessions', ManagerId(i))
                 /\ active_session_count(sessions') = active_session_count(sessions) + 1

C13_EndStep ==
    \A i \in EndIndices :
        (resp'.line.bgsId = ManagerId(i) /\ EndGameSession(ManagerId(i))) =>
            IF has_session(sessions, ManagerId(i))
            THEN /\ resp'.line = create_session_ended_response(ManagerId(i), TRUE, "")
                 /\ ~has_session(sessions', ManagerId(i))
                 /\ active_session_count(sessions') = active_session_count(sessions) - 1
                 /\ \A id \in ManagerIds \ {ManagerId(i)} : sessions'[id] = sessions[id]
            ELSE /\ resp'.line = create_session_ended_response(ManagerId(i), FALSE,
                                                               "not found")
                 /\ sessions' = sessions

C13_EndSession == [][C13_EndStep]_vars

\* the first session ended while the others stay
C13_Witness ==
    /\ resp.line = create_session_ended_response(ManagerId(1), TRUE, "")
    /\ ~has_session(sessions, ManagerId(1))
    /\ active_session_count(sessions) = kMaxSessions - 1

(* C14: an evaluate_position request whose expectedPly is the ply of the  *)
(* session, on an undecided position where the player to move has a legal *)
(* move, is answered success=true with the ply of the session, a          *)
(* non-empty bestMove and an evaluation within [-1, 1]                    *)
C14_EvaluateSucceeds ==
    (/\ AnsweredEvaluate
     /\ resp.expectedPly = resp.plyBefore
     /\ winner(TheSession.mcts.board) = "Undecided"
     /\ LegalMoves(TheSession) # {}) =>
        /\ resp.line.success
        /\ resp.line.ply = TheSession.ply
        /\ resp.line.bestMove # <<>>
        /\ resp.line.evaluation \in (-1)..1

(* C15: the evaluation of a successful evaluate_position is the root      *)
(* value read after the sampling when Red is to move (even ply) and its   *)
(* negation when Blue is to move (odd ply), cut to the interval [-1, 1]   *)
C15_Step ==
    \A r \in Reqs, raw_eval \in RootValues :
        (EvaluateRespond(r, raw_eval) /\ resp'.line.success) =>
            LET session == sessions[reqs[r].bgsId][1]
                seen == IF session.ply % 2 = 0 THEN raw_eval ELSE 0 - raw_eval
            IN /\ seen > 1 => resp'.line.evaluation = 1
               /\ seen < -1 => resp'.line.evaluation = -1
               /\ seen \in (-1)..1 => resp'.line.evaluation = seen

C15_Player1Perspective == [][C15_Step]_vars

\* Blue is to move and the evaluation is in favour of Red
C15_Witness ==
    /\ AnsweredEvaluate /\ resp.line.success
    /\ TheSession.ply = 1
    /\ current_player(TheSession) = "Blue"
    /\ resp.line.evaluation = 1

(* C16: the peek of handle_evaluate_position leaves the search tree as it *)
(* is: over the step that answers an evaluate_position the tree of the    *)
(* session, its root_samples and its current board are unchanged, and a   *)
(* further peek_best_move on the tree gives the move the response reports *)
(* (none when the response reports none)                                  *)
EvaluateStep == resp = NoResponse /\ resp'.line.type = "evaluate_response" /\ HasSession

C16_PeekStep ==
    EvaluateStep =>
        LET before == sessions[TheId][1]
            after == sessions'[TheId][1]
        IN /\ root_samples(after.mcts) = root_samples(before.mcts)
           /\ after.mcts.board = before.mcts.board
           /\ after.mcts = before.mcts
           /\ after.ply = before.ply
           /\ peek_best_action(after.mcts) = peek_best_action(before.mcts)
           /\ resp'.line.success =>
                 /\ peek_best_move(after.mcts) # None
                 /\ resp'.line.bestMove =
                       best_move_notation(after, peek_best_move(after.mcts)[1]).text
           /\ resp'.line.error = "No legal move available" =>
                 peek_best_move(after.mcts) = None

RECURSIVE ScanBest(_, _, _)
ScanBest(edges, i, best) ==
    IF i > Len(edges) THEN best
    ELSE ScanBest(edges, i + 1,
                  IF edges[i].child # None /\ (best = 0 \/ edges[i].N > edges[best].N)
                  THEN i ELSE best)

PeekAgrees(node) ==
    LET i == ScanBest(node.edges, 1, 0)
    IN /\ peek_best_action(node) = i
       /\ (\A k \in 1..Len(node.edges) : node.edges[k].child = None) => i = 0
       /\ IF i = 0 THEN peek_best_move(node) = None
          ELSE LET child == node.edges[i].child[1]
                   j == ScanBest(child.edges, 1, 0)
               IN /\ peek_best_action(child) = j
                  /\ peek_best_move(node) =
                        IF j = 0 THEN None
                        ELSE Some(Move(node.edges[i].action, child.edges[j].action))

C17_PeekBest ==
    HasSession =>
        /\ PeekAgrees(TheSession.mcts)
        /\ root_samples(TheSession.mcts) = 0 => peek_best_action(TheSession.mcts) = 0

\* two explored edges of the root share the highest visit count and the
\* peek takes the first
C17_Witness ==
    /\ HasSession
    /\ \E i, j \in 1..Len(TheSession.mcts.edges) :
          /\ i < j
          /\ TheSession.mcts.edges[i].child # None
          /\ TheSession.mcts.edges[j].child # None
          /\ TheSession.mcts.edges[i].N = TheSession.mcts.edges[j].N
          /\ \A k \in 1..Len(TheSession.mcts.edges) :
                TheSession.mcts.edges[k].N <= TheSession.mcts.edges[i].N
          /\ peek_best_action(TheSession.mcts) = i

(* C18: legal_walls() is exact: on every board reached by legal actions   *)
(* its walls are precisely the unblocked walls after whose placement the  *)
(* Red cat still reaches Red's goal and the Blue cat Blue's goal, each    *)
(* wall tested on its own by reachability                                 *)
WallsKeepingPaths(b) ==
    {w \in Range(WallCandidates(b.m_columns, b.m_rows, 0, 0)) :
        /\ ~is_blocked(b, w)
        /\ BothConnected(place_wall(b, "Red", w).board)}

C18_LegalWallsExact == Range(legal_walls(board)) = WallsKeepingPaths(board)

\* a board with a refused wall and with an offered wall that cuts cells
\* off the Red cat without cutting its way to the goal
C18_Witness ==
    /\ nactions > 0
    /\ \E w \in Range(WallCandidates(board.m_columns, board.m_rows, 0, 0)) :
          ~is_blocked(board, w) /\ w \notin Range(legal_walls(board))
    /\ \E w \in Range(legal_walls(board)) :
          LET after == place_wall(board, "Red", w).board
          IN ReachFrom(after, {position(after, "Red")}, {position(after, "Red")})
                # CellsOf(after.m_columns, after.m_rows)

(* C19: for a config that carries its fields, validate_bgs_config and     *)
(* validate_request accept exactly when the variant is classic or         *)
(* standard and 4 <= boardWidth <= model_columns and                      *)
(* 4 <= boardHeight <= model_rows; every rejection has an error message,  *)
(* and the one for an unknown variant names the variant                   *)
Validated == validated.fn \in ValidationFunctions

C19_AcceptsExactly ==
    Validated =>
        /\ validated.result.valid <=>
              /\ validated.variant \in {"classic", "standard"}
              /\ 4 <= validated.boardWidth /\ validated.boardWidth <= ModelCols
              /\ 4 <= validated.boardHeight /\ validated.boardHeight <= ModelRows
        /\ validated.result.valid <=> validated.result.error_message = ""
        /\ validated.variant \notin {"classic", "standard"} =>
              validated.result.error_message =
                 "Deep-wallwars only supports the 'classic' and 'standard' variants (not '"
                     \o validated.variant \o "')"

\* a width one above the model with a height within it is rejected
C19_Witness ==
    /\ validated.fn = "validate_request"
    /\ validated.variant = "standard"
    /\ validated.boardWidth = ModelCols + 1
    /\ validated.boardHeight = 4
    /\ ~validated.result.valid

(* C20: a start_game_session whose config has a validation error (an      *)
(* unknown variant, a board side out of range, a missing field) is        *)
(* answered by a game_session_started response with success=false and a   *)
(* non-empty error, and leaves the sessions as they were                  *)
HasValidationError(bgs_config) ==
    \/ ~({"variant", "boardWidth", "boardHeight", "initialState"}
            \subseteq DOMAIN bgs_config)
    \/ ~({"pawns", "walls"} \subseteq DOMAIN bgs_config.initialState)
    \/ bgs_config.variant \notin {"classic", "standard"}
    \/ bgs_config.boardWidth \notin 4..ModelCols
    \/ bgs_config.boardHeight \notin 4..ModelRows

C20_InvalidStep ==
    \A i \in StartIndices : \A bgs_config \in ManagerConfigs(i) :
        (HasValidationError(bgs_config) /\ StartGameSession(ManagerId(i), bgs_config)) =>
            /\ resp'.line.type = "game_session_started"
            /\ resp'.line.bgsId = ManagerId(i)
            /\ ~resp'.line.success
            /\ resp'.line.error # ""
            /\ sessions' = sessions

C20_ValidationErrorsReported == [][C20_InvalidStep]_vars

\* the lines of `lines` that parse
ParsedLines(lines) == SelectSeq(lines, LAMBDA line : line.json # None)

\* the outcome of the last of `lines` when on_line gets them one by one,
\* starting without sessions
RECURSIVE Replay(_)
Replay(lines) ==
    IF lines = <<>> THEN Handled([id \in BgsIds |-> None], NoLine)
    ELSE on_line(Replay(SubSeq(lines, 1, Len(lines) - 1)).sessions, lines[Len(lines)])

\* C21: a line that is not valid JSON is dropped: reading it writes no
\* response and changes no session, and the sessions and the response after
\* every line are those of the same input without the lines that do not parse
C21_ReadStep ==
    stdin'.read = stdin.read + 1 =>
       LET line == stdin.lines[stdin.read + 1]
           sent == ParsedLines(SubSeq(stdin.lines, 1, stdin.read + 1))
       IN /\ line.json = None =>
                /\ resp' = NoResponse
                /\ sessions' = sessions
                /\ reqs' = reqs
          /\ sessions' = Replay(sent).sessions
          /\ line.json # None => resp'.line = Replay(sent).line
C21_MalformedDropped == [][C21_ReadStep]_vars
\* a malformed line was read between two requests and a session is active
C21_Witness ==
    /\ stdin.read = 3
    /\ stdin.lines[1].json # None
    /\ stdin.lines[2].json = None
    /\ stdin.lines[3].json # None
    /\ sessions["g1"] # None
    /\ resp.line.type = "game_session_started"
    /\ resp.line.success

\* the cells that carry the bit of a pawn
CellsWith(b, player, pawn) ==
    {c \in DOMAIN b.m_board : PawnBit(player, pawn) \in b.m_board[c]}

\* C22: after any sequence of calls of take_step, place_wall and do_action
\* exactly one cell carries the bit of each of the four pawns, that cell is
\* the stored position that position() / mouse() return, and it lies inside
\* the grid
C22_PawnBitsMatchPositions ==
    \A player \in Players, pawn \in Pawns :
        /\ CellsWith(board, player, pawn) = {pawn_position(board, player, pawn)}
        /\ position(board, player) = pawn_position(board, player, "Cat")
        /\ mouse(board, player) = pawn_position(board, player, "Mouse")
        /\ pawn_position(board, player, pawn) \in CellsOf(board.m_columns, board.m_rows)
\* a cat has left its corner by a successful step and a wall has been placed
C22_Witness ==
    /\ nactions = MaxCalls
    /\ ~last_call.err
    /\ last_call.action.kind = "PawnMove"
    /\ position(board, "Red") # Cell(0, 0)
    /\ NumWalls(board) > 0

\* the players whose owner bit is set for a wall
OwnerBits(b, wall) ==
    {player \in Players : WallBit(player, wall.type) \in b.m_board[wall.cell]}

\* the walls between two cells of the grid
InteriorWalls(b) ==
    {wall \in GridWalls(b) :
        step(wall.cell, wall.type) \in CellsOf(b.m_columns, b.m_rows)}

\* C23: a wall belongs to exactly one placer: after every call at most one
\* owner bit is set for each Right/Down edge of each cell, an interior edge
\* is blocked exactly when an owner bit is set, wall_owner returns the player
\* who placed the wall and keeps returning it, and place_wall on a blocked
\* edge throws and leaves the board unchanged
C23_CallStep ==
    nactions' = nactions + 1 =>
       LET placed == last_call'.action.kind = "Wall"
           wall == last_call'.action.wall
           owned(walls) ==
              \A v \in walls :
                 /\ Cardinality(OwnerBits(board', v)) <= 1
                 /\ step(v.cell, v.type) \in DOMAIN board'.m_board =>
                       (is_blocked(board', v) <=> Cardinality(OwnerBits(board', v)) = 1)
                 /\ wall_owner(board', v) =
                       IF placed /\ ~last_call'.err /\ v = wall
                       THEN Some(last_call'.player)
                       ELSE wall_owner(board, v)
       IN /\ placed => (last_call'.err <=> is_blocked(board, wall))
          /\ (placed /\ last_call'.err) => board' = board
          /\ owned(GridWalls(board'))
C23_OneOwnerPerWall == [][C23_CallStep]_vars
\* place_wall on a wall of the other player threw and the wall kept its owner
C23_Witness ==
    /\ last_call.op = "place_wall"
    /\ last_call.err
    /\ last_call.action.wall \in InteriorWalls(board)
    /\ wall_owner(board, last_call.action.wall) = Some(other_player(last_call.player))

\* C24: the boundary of the board behaves as a wall: every edge that leaves
\* the grid is blocked, legal_directions of a pawn that may move are exactly
\* the directions whose edge is not blocked, take_step across a blocked edge
\* throws and leaves the board unchanged, and every pawn stays in the grid
C24_BoundaryBlocks ==
    LET cells == CellsOf(board.m_columns, board.m_rows)
    IN /\ \A c \in cells, dir \in Directions :
             step(c, dir) \notin cells => is_blocked(board, WallDir(c, dir))
       /\ \A player \in Players, pawn \in Pawns :
             LET pos == pawn_position(board, player, pawn)
                 open == {dir \in Directions : ~is_blocked(board, WallDir(pos, dir))}
                 dirs == legal_directions(board, player, pawn)
             IN /\ pos \in cells
                /\ (pawn = "Cat" \/ allows_mouse_moves(board)) =>
                      /\ Range(dirs) = open
                      /\ Len(dirs) = Cardinality(open)
                /\ \A dir \in Directions :
                      LET stepped == take_step(board, player, pawn, dir)
                      IN /\ stepped.err <=> dir \notin open
                         /\ stepped.err => stepped.board = board
                         /\ pawn_position(stepped.board, player, pawn) \in cells
       /\ (last_call.op = "take_step" /\ last_call.err) =>
             is_blocked(board, WallDir(pawn_position(board, last_call.player,
                                                     last_call.action.pawn),
                                       last_call.action.dir))
\* take_step of a cat threw at a wall that a player had placed
C24_Witness ==
    /\ last_call.op = "take_step"
    /\ last_call.err
    /\ last_call.action.pawn = "Cat"
    /\ WallDir(position(board, last_call.player), last_call.action.dir)
          \in InteriorWalls(board)
    /\ wall_owner(board, WallDir(position(board, last_call.player),
                                 last_call.action.dir)) # None

\* C25: in Classic the mouse does not move: legal_directions of the Mouse is
\* empty, legal_actions holds no mouse move, every mutating operation throws
\* when it is asked to move the Mouse, and the mouse cells are those of the
\* initial board
C25_ClassicMouseFixed ==
    board.m_variant = "Classic" =>
       \A player \in Players :
          /\ legal_directions(board, player, "Mouse") = <<>>
          /\ \A action \in Range(legal_actions(board, player)) :
                action.kind = "PawnMove" => action.pawn = "Cat"
          /\ \A dir \in Directions :
                /\ do_action(board, player, PawnMove("Mouse", dir)).err
                /\ take_step(board, player, "Mouse", dir).err
          /\ mouse(board, player) = mouse(BoardDefault(Cols, Rows, "Classic"), player)

\* the part of C25 that holds: the queries and do_action
C25_ClassicMouseQueries ==
    board.m_variant = "Classic" =>
       \A player \in Players :
          /\ legal_directions(board, player, "Mouse") = <<>>
          /\ \A action \in Range(legal_actions(board, player)) :
                action.kind = "PawnMove" => action.pawn = "Cat"
          /\ \A dir \in Directions :
                do_action(board, player, PawnMove("Mouse", dir)).err
\* a Classic board whose red mouse has left its corner
C25_MouseMoved ==
    /\ board.m_variant = "Classic"
    /\ last_call.op = "take_step"
    /\ ~last_call.err
    /\ mouse(board, "Red") # mouse(BoardDefault(Cols, Rows, "Classic"), "Red")

\* the cells within n steps of the cells of `from`
RECURSIVE Within(_, _, _)
Within(b, from, n) ==
    IF n = 0 THEN from
    ELSE Within(b,
                from \cup {step(e[1], e[2]) : e \in {x \in from \X Directions :
                                                ~is_blocked(b, WallDir(x[1], x[2]))}},
                n - 1)

\* the close race: the blue cat is at most two steps from the red mouse
CloseRace(b) == b.m_red.mouse \in Within(b, {b.m_blue.cat}, 2)

\* C26: winner() is Red when the red cat is on the blue mouse's cell, except
\* that it is Draw when the blue cat is then within two steps of the red
\* mouse's cell, an unreachable red mouse never giving a draw; it is Blue when
\* the blue cat is on the red mouse's cell and Red has not arrived; otherwise
\* it is Undecided
C26_Winner ==
    /\ winner(board) =
          IF position(board, "Red") = mouse(board, "Blue")
          THEN IF CloseRace(board) THEN "Draw" ELSE "Red"
          ELSE IF position(board, "Blue") = mouse(board, "Red") THEN "Blue"
          ELSE "Undecided"
    /\ ~Connected(board, position(board, "Blue"), mouse(board, "Red")) =>
          winner(board) # "Draw"
    /\ last_call.op = "winner" => last_call.result = winner(board)
\* winner() answered Red for a red cat on its goal while walls cut the blue
\* cat, two cells away, from the red mouse
C26_Witness ==
    /\ last_call.op = "winner"
    /\ last_call.result = "Red"
    /\ position(board, "Red") = mouse(board, "Blue")
    /\ ~Connected(board, position(board, "Blue"), mouse(board, "Red"))
    /\ position(board, "Blue") = Cell(0, Rows - 3)

\* the legal actions of the player to move that are not the backtrack
LegalNotBacktrack(b, turn_, previous_position) ==
    {PawnMove(e[1], e[2]) :
        e \in {x \in Pawns \X Directions :
                  /\ x[1] = "Cat" \/ allows_mouse_moves(b)
                  /\ x[2] \in Range(legal_directions(b, turn_.player, x[1]))
                  /\ ~is_backtrack(previous_position, x[1],
                                   step(pawn_position(b, turn_.player, x[1]), x[2]))}}
    \cup {WallAction(wall) : wall \in Range(legal_walls(b))}

EdgeActions(edges) == {edges[i].action : i \in 1..Len(edges)}

\* the evaluator has been called on the board
Evaluated == policy_call.policy # "none"

Unweighted(params, b, turn_) ==
    {PawnMove(e[1], e[2]) :
        e \in {x \in Pawns \X Directions :
                  LET pos == pawn_position(b, turn_.player, x[1])
                      target == IF x[1] = "Cat" THEN goal(b, turn_.player)
                                ELSE position(b, other_player(turn_.player))
                  IN /\ step(pos, x[2]) \in CellsOf(b.m_columns, b.m_rows)
                     /\ move_bias(params, distance(b, pos, target),
                                  distance(b, step(pos, x[2]), target),
                                  x[1] = "Cat").num <= 0}}

MoveEdges(edges) == SelectSeq(edges, LAMBDA edge : edge.action.kind = "PawnMove")
WallEdges(edges) == SelectSeq(edges, LAMBDA edge : edge.action.kind = "Wall")

\* how the two evaluators weigh their edges: SimplePolicy scales the pawn
\* moves to move_prior and gives each wall (1 - move_prior) / |legal_walls|,
\* BatchedModelPolicy divides the priors of the model by their sum
PriorsAsWeighed ==
    /\ policy_call.policy = "SimplePolicy" =>
          /\ MoveEdges(policy_call.edges) # <<>> =>
                total_prior(MoveEdges(policy_call.edges)) = policy_call.params.m_move_prior
          /\ \A i \in 1..Len(WallEdges(policy_call.edges)) :
                FracMul(WallEdges(policy_call.edges)[i].prior,
                        Frac(Len(legal_walls(board)), 1))
                   = FracAdd(Frac(1, 1),
                             FracMul(Frac(-1, 1), policy_call.params.m_move_prior))
    /\ policy_call.policy = "BatchedModelPolicy" =>
          \A i \in 1..Len(policy_call.edges) :
             policy_call.edges[i].prior =
                FracDiv(inference_prior(policy_call.params,
                                        prior_index(board, policy_call.edges[i].action)),
                        total_prior(BatchedModelPolicy_Raw(policy_call.params, board, turn,
                                        policy_call.previous_position)))

\* C28: the priors of the edges an evaluator returns sum to 1, for every
\* board, turn and hint, SimplePolicy weighing pawn moves and walls by
\* move_prior and BatchedModelPolicy dividing by the sum of the priors
C28_PriorsSumToOne ==
    (Evaluated /\ policy_call.edges # <<>>) =>
       /\ total_prior(policy_call.edges) = Frac(1, 1)
       /\ PriorsAsWeighed

\* the part of C28 that holds: the weights, and the sum of BatchedModelPolicy
C28_WeightsAndBatchedSum ==
    (Evaluated /\ policy_call.edges # <<>>) =>
       /\ PriorsAsWeighed
       /\ policy_call.policy = "BatchedModelPolicy" =>
             total_prior(policy_call.edges) = Frac(1, 1)
\* SimplePolicy with the default parameters returned only walls, whose
\* priors sum to 1 - move_prior
C28_WallsOnly ==
    /\ policy_call.policy = "SimplePolicy"
    /\ policy_call.params = DefaultParams
    /\ MoveEdges(policy_call.edges) = <<>>
    /\ total_prior(policy_call.edges) = Frac(7, 10)

\* the cells of the model that hold the game: at the top left in Standard;
\* in Classic on the bottom rows, with as many padding columns on the left
\* as on the right or one fewer
GameRectangle(config) ==
    LET spare == config.model_columns - config.game_columns
        left == CHOOSE k \in 0..spare : 2 * k <= spare /\ spare <= 2 * k + 1
    IN IF config.variant = "Standard"
       THEN CellsOf(config.game_columns, config.game_rows)
       ELSE {Cell(c, r) : c \in left..(left + config.game_columns - 1),
                          r \in (config.model_rows - config.game_rows)
                                   ..(config.model_rows - 1)}

\* C29: for every padding configuration and every cell of the game,
\* transform_to_game(transform_to_model(cell)) is that cell, and
\* transform_to_game gives no cell for a model cell outside the game
\* rectangle
C29_PaddingRoundTrip ==
    /\ padding.op = "round_trip" => padding.result = Some(padding.cell)
    /\ padding.op = "transform_to_game" =>
          /\ padding.cell \notin GameRectangle(padding.config) => padding.result = None
          /\ padding.cell \in GameRectangle(padding.config) =>
                /\ padding.result # None
                /\ transform_to_model(padding.result[1], padding.config) = padding.cell
\* a cell on the bottom row of a Classic model, left of the game columns,
\* was given to transform_to_game
C29_Witness ==
    /\ padding.op = "transform_to_game"
    /\ padding.config.variant = "Classic"
    /\ padding.config.col_offset > 0
    /\ padding.cell = Cell(0, padding.config.model_rows - 1)
    /\ padding.result = None

\* C30: create_padding_config puts the game at the top left in Standard
\* (both offsets 0) and, in Classic, at the bottom (row_offset = model_rows -
\* game_rows) with col_offset = floor((model_columns - game_columns) / 2);
\* needs_padding() is false exactly when game and model have the same
\* dimensions, and then both offsets are 0
C30_PaddingPlacement ==
    padding.created =>
       LET config == padding.config
           spare == config.model_columns - config.game_columns
       IN /\ config.variant = "Standard" =>
                config.row_offset = 0 /\ config.col_offset = 0
          /\ config.variant = "Classic" =>
                /\ config.row_offset = config.model_rows - config.game_rows
                /\ 2 * config.col_offset <= spare
                /\ spare <= 2 * config.col_offset + 1
          /\ ~needs_padding(config) <=>
                /\ config.game_rows = config.model_rows
                /\ config.game_columns = config.model_columns
          /\ ~needs_padding(config) =>
                config.row_offset = 0 /\ config.col_offset = 0
\* a Classic game with an odd number of spare columns got the smaller half
\* on its left
C30_Witness ==
    /\ padding.op = "create_padding_config"
    /\ padding.config.variant = "Classic"
    /\ padding.config.model_columns - padding.config.game_columns = 3
    /\ padding.config.col_offset = 1
    /\ padding.config.row_offset > 0

-----------------------------------------------------------------------------
(* Claims about the move notation (SpecNotation) *)

\* the cells a move names: the cells its pawns step on and the two cells each wall separates
MoveCells(move, cat_start, mouse_start) ==
    LET acts == <<move.first, move.second>>
    IN {PawnDestination(SubSeq(acts, 1, i), acts[i].pawn,
                        IF acts[i].pawn = "Cat" THEN cat_start ELSE mouse_start) :
           i \in {i \in 1..2 : acts[i].kind = "PawnMove"}}
       \cup UNION {{acts[i].wall.cell, step(acts[i].wall.cell, acts[i].wall.type)} :
                      i \in {i \in 1..2 : acts[i].kind = "Wall"}}

\* the rendered move lies inside the game area
InsideGame ==
    /\ rendering.rendered
    /\ MoveCells(rendering.move, rendering.cat_start, rendering.mouse_start)
           \subseteq GameRectangle(rendering.config)

(* C31: a move whose cells lie inside the game area, rendered with        *)
(* standard_notation in model coordinates, translated with                 *)
(* transform_move_notation and parsed with parse_move_notation under the   *)
(* same padding, is read back as the original move with its two actions    *)
C31_MoveRoundTrip ==
    InsideGame => rendering.parsed = Some(rendering.move)

\* the rendered move is one the search can return: its pawns stay on cells a
\* pawn can stand on and its walls separate two cells of the game area
Producible ==
    LET acts == <<rendering.move.first, rendering.move.second>>
        start(pawn) == IF pawn = "Cat" THEN rendering.cat_start ELSE rendering.mouse_start
    IN /\ rendering.rendered
       /\ \A i \in 1..2 :
             IF acts[i].kind = "Wall"
             THEN {acts[i].wall.cell, step(acts[i].wall.cell, acts[i].wall.type)}
                      \subseteq GameRectangle(rendering.config)
             ELSE PawnDestination(SubSeq(acts, 1, i), acts[i].pawn, start(acts[i].pawn))
                      \in PawnCells(rendering.config)

\* the column of the game cell of the bottom game row nearest to model column
\* `column`
NearestGameColumn(column, config) ==
    LET away(g) == IF g + config.col_offset >= column THEN g + config.col_offset - column
                   ELSE column - (g + config.col_offset)
    IN CHOOSE g \in 0..(config.game_columns - 1) :
          \A h \in 0..(config.game_columns - 1) : away(g) <= away(h)

PrefixRank(prefix) ==
    CASE prefix = "C" -> 1 [] prefix = "M" -> 2 [] prefix = ">" -> 3 [] prefix = "^" -> 4

\* the columns and the rows a step in `dir` adds
ColumnsOf(dir) == CASE dir = "Right" -> 1 [] dir = "Left" -> -1 [] OTHER -> 0
RowsOf(dir) == CASE dir = "Down" -> 1 [] dir = "Up" -> -1 [] OTHER -> 0

\* the component that names `pawn` after the steps it takes in `acts`
PawnComponent(acts, pawn, start, rows) ==
    LET steps == {i \in 1..2 : acts[i].kind = "PawnMove" /\ acts[i].pawn = pawn}
        sum(f(_)) == IF steps = {} THEN 0
                     ELSE IF steps = {1, 2} THEN f(acts[1].dir) + f(acts[2].dir)
                     ELSE f(acts[CHOOSE i \in steps : TRUE].dir)
    IN Component(IF pawn = "Cat" THEN "C" ELSE "M",
                 start.column + sum(ColumnsOf), rows - (start.row + sum(RowsOf)))

\* the component that names a wall
WallComponent(wall, rows) ==
    IF wall.type = "Right" THEN Component(">", wall.cell.column, rows - wall.cell.row)
    ELSE Component("^", wall.cell.column, rows - (wall.cell.row + 1))

(* C33: standard_notation writes the cat's destination, then the mouse's,  *)
(* then the walls with '>' before '^' and then by cell; a pawn moved twice *)
(* has one component with the destination after both steps; a Down wall is *)
(* '^' and the cell below it; the text is the same when the two actions    *)
(* are swapped; in Classic there is no M component                         *)
C33_StandardNotation ==
    (rendering.rendered /\ ~rendering.model_notation.err) =>
       LET text == rendering.model_notation.text
           acts == <<rendering.move.first, rendering.move.second>>
           rows == rendering.config.model_rows
           moved(pawn) == \E i \in 1..2 : acts[i].kind = "PawnMove" /\ acts[i].pawn = pawn
           with(prefix) == {i \in 1..Len(text) : text[i].prefix = prefix}
           walls == {acts[i].wall : i \in {i \in 1..2 : acts[i].kind = "Wall"}}
       IN /\ \A i, j \in 1..Len(text) :
                i < j => \/ PrefixRank(text[i].prefix) < PrefixRank(text[j].prefix)
                         \/ /\ text[i].prefix = text[j].prefix
                            /\ text[i].prefix \in {">", "^"}
                            /\ \/ text[i].col < text[j].col
                               \/ text[i].col = text[j].col /\ text[i].num > text[j].num
          /\ \A pawn \in Pawns :
                LET start == IF pawn = "Cat" THEN rendering.cat_start
                             ELSE rendering.mouse_start
                    prefix == IF pawn = "Cat" THEN "C" ELSE "M"
                IN IF moved(pawn)
                   THEN /\ Cardinality(with(prefix)) = 1
                        /\ \A i \in with(prefix) :
                              text[i] = PawnComponent(acts, pawn, start, rows)
                   ELSE with(prefix) = {}
          /\ Cardinality(with(">") \cup with("^")) = Cardinality(walls)
          /\ \A wall \in walls : \E i \in 1..Len(text) : text[i] = WallComponent(wall, rows)
          /\ standard_notation(Move(acts[2], acts[1]), rendering.cat_start,
                               rendering.mouse_start, rows) = rendering.model_notation
          /\ rendering.config.variant = "Classic" => with("M") = {}

\* the cat steps right and then down and is written once, with the cell
\* diagonally below
C33_Witness ==
    /\ rendering.rendered
    /\ rendering.move = Move(PawnMove("Cat", "Right"), PawnMove("Cat", "Down"))
    /\ rendering.model_notation.text =
          <<Component("C", rendering.cat_start.column + 1,
                      rendering.config.model_rows - rendering.cat_start.row - 1)>>

-----------------------------------------------------------------------------
(* Claims about the padded board (SpecPadded) *)

\* the edges of the model grid: the walls between two cells of the model
ModelEdges(config) ==
    {Wall(c, t) : c \in CellsOf(config.model_columns, config.model_rows),
                  t \in {"Right", "Down"}}
    \ ({Wall(Cell(config.model_columns - 1, r), "Right") : r \in 0..(config.model_rows - 1)}
       \cup {Wall(Cell(c, config.model_rows - 1), "Down") :
                c \in 0..(config.model_columns - 1)})

\* the two cells of an edge
Ends(wall) == {wall.cell, step(wall.cell, wall.type)}

\* the edges between two cells of the game, and the edges with a padding cell
GameEdges(config) == {w \in ModelEdges(config) : Ends(w) \subseteq GameRectangle(config)}
PaddingEdges(config) == ModelEdges(config) \ GameEdges(config)

\* the cells of the four pawns
PawnCellsOf(b) == {b.m_red.cat, b.m_red.mouse, b.m_blue.cat, b.m_blue.mouse}

(* C35: on a Standard board with padding every edge with an end outside    *)
(* the game area is blocked and place_padding_walls leaves every edge      *)
(* between two game cells unblocked; the pawns, which start inside the     *)
(* game area, stay inside it, and no wall of legal_walls() touches a       *)
(* padding cell                                                            *)
C35_StandardPadding ==
    (padding.created /\ padding.config.variant = "Standard") =>
       /\ \A w \in PaddingEdges(padding.config) : is_blocked(board, w)
       /\ nactions = 0 => \A w \in GameEdges(padding.config) : ~is_blocked(board, w)
       /\ PawnCellsOf(board) \subseteq GameRectangle(padding.config)
       /\ \A w \in Range(legal_walls(board)) : w \in GameEdges(padding.config)

\* the red cat has walked to the bottom right corner of the game, next to the
\* padding, and walls can still be placed
C35_Witness ==
    /\ padding.created /\ padding.config.variant = "Standard"
    /\ nactions > 0
    /\ position(board, "Red") = Cell(padding.config.game_columns - 1,
                                     padding.config.game_rows - 1)
    /\ legal_walls(board) # <<>>

\* the Right walls between two cells of the bottom row of the model
BottomRowEdges(config) ==
    {w \in ModelEdges(config) : w.type = "Right" /\ w.cell.row = config.model_rows - 1}

\* the bottom corners of the model, the Classic goals
ModelCorners(config) ==
    {Cell(0, config.model_rows - 1), Cell(config.model_columns - 1, config.model_rows - 1)}

\* on a Classic board with padding: no Right wall of the bottom row is
\* blocked and both corners are reachable from every game cell right after
\* place_padding_walls; every other edge with a padding end is blocked; the
\* padding cells reachable from the game area are on the bottom row
ClassicPaddingEdges ==
    (padding.created /\ padding.config.variant = "Classic") =>
       LET config == padding.config
       IN /\ nactions = 0 =>
                /\ \A w \in BottomRowEdges(config) : ~is_blocked(board, w)
                /\ \A c \in GameRectangle(config) :
                      ModelCorners(config) \subseteq ReachFrom(board, {c}, {c})
          /\ \A w \in PaddingEdges(config) \ BottomRowEdges(config) : is_blocked(board, w)
          /\ \A c \in GameRectangle(config) :
                \A d \in ReachFrom(board, {c}, {c}) \ GameRectangle(config) :
                   d.row = config.model_rows - 1

(* C36: on a Classic board with padding place_padding_walls leaves every   *)
(* Right wall of the bottom model row unblocked, so both bottom corners of *)
(* the model are reachable from every game cell; every other edge with a   *)
(* padding end is blocked, so the padding cells reachable from the game    *)
(* area are on the bottom row; and no wall of legal_walls() touches a      *)
(* padding cell                                                            *)
C36_ClassicPadding ==
    /\ ClassicPaddingEdges
    /\ (padding.created /\ padding.config.variant = "Classic") =>
          \A w \in Range(legal_walls(board)) : w \in GameEdges(padding.config)

-----------------------------------------------------------------------------
(* Claims about the session layer (Spec) *)

(* C37: in every state of a session the turn at the root of its MCTS is    *)
(* the first action of Red when the ply is even and the first action of    *)
(* Blue when it is odd: the player the handlers derive from ply % 2 is the *)
(* player about to act at the root                                         *)
C37_PlyParity ==
    HasSession => TheSession.mcts.turn = TurnOf(current_player(TheSession), "First")

\* a move was applied: the ply is odd and Blue is about to act at the root
C37_Witness ==
    /\ HasSession
    /\ TheSession.ply = 1
    /\ TheSession.mcts.turn = TurnOf("Blue", "First")
(* C38: an apply_move that succeeds for expectedPly = p is handled while  *)
(* the ply is p and leaves the ply at p + 1, and the ply never goes back,  *)
(* so that no second apply_move succeeds for the same p however the        *)
(* requests interleave; an apply_move that fails leaves the board, the     *)
(* tree and the ply as they were, and it fails with a ply-mismatch error   *)
(* whenever the ply is not the one it expected                             *)
C38_Step ==
    (HasSession /\ HasSession') =>
        /\ TheSession'.ply >= TheSession.ply
        /\ ApplyStep =>
              /\ resp'.line.success =>
                    /\ resp'.expectedPly = TheSession.ply
                    /\ TheSession'.ply = TheSession.ply + 1
              /\ ~resp'.line.success =>
                    /\ TheSession'.ply = TheSession.ply
                    /\ TheSession'.mcts = TheSession.mcts
              /\ (resp'.expectedPly # TheSession.ply) =>
                    /\ ~resp'.line.success
                    /\ resp'.line.error = "Ply mismatch"
              /\ (~resp'.line.success /\ resp'.expectedPly = TheSession.ply) =>
                    resp'.line.error \in {"Failed to parse move notation",
                                          "Failed to apply move"}

C38_AtMostOneApplies == [][C38_Step]_vars

\* the statement with every failing apply_move a ply mismatch
C38_OthersStep ==
    /\ C38_Step
    /\ (HasSession /\ HasSession' /\ ApplyStep /\ ~resp'.line.success) =>
          resp'.line.error = "Ply mismatch"

C38_OthersPlyMismatch == [][C38_OthersStep]_vars

\* an apply_move for ply 0 is refused after another one for ply 0 was
\* applied
C38_Witness ==
    /\ AnsweredApply
    /\ resp.line.error = "Ply mismatch"
    /\ resp.expectedPly = 0 /\ resp.plyBefore = 1
    /\ TheSession.ply = 1
-----------------------------------------------------------------------------
(* Claims about the lifetime of a session (SpecLifetime) *)

(* C39: a session is not used after it was destroyed: a handler that is    *)
(* past get_session takes a step (locks the mutex, reads or writes the ply *)
(* or the MCTS, answers) only while its session is in the map, and         *)
(* end_session erases a session only while no handler holds its mutex      *)
C39_Step ==
    /\ \A r \in Reqs :
          (reqs[r].pc # "idle" /\ reqs'[r] # reqs[r]) => sessions[reqs[r].bgsId] # None
    /\ (HasSession /\ ~HasSession') => TheSession.request_mutex = 0

C39_NoUseAfterDestroy == [][C39_Step]_vars
-----------------------------------------------------------------------------
(* Claims about the thread pool (FairSpecPool) *)

\* the thread waits in blockingWait for a handler that has not finished,
\* or for request_mutex
BlockedThread(t) ==
    \/ /\ pool.threads[t].at = "blockingWait"
       /\ pool.handlers[pool.threads[t].id] # "done"
    \/ /\ pool.threads[t].at = "handler"
       /\ pool.handlers[pool.threads[t].id] = "get_session"
       /\ pool.mutex # 0

\* every thread of the pool is blocked while a handler waits in the queue
\* of the pool for a thread
Starved ==
    /\ \A t \in Threads : BlockedThread(t)
    /\ \E k \in 1..Len(pool.queue) : pool.queue[k].kind = "handler"

(* C40: every request line that was read leads to exactly one response,    *)
(* however many requests are pending for the threads of the pool: the      *)
(* pool never has all its threads blocked in blockingWait or on a session  *)
(* mutex while a handler coroutine waits for a thread                      *)
C40_EveryRequestAnswered ==
    /\ [](~Starved)
    /\ [](\A i \in LineIds : pool.written[i] <= 1)
    /\ \A i \in LineIds : (pool.read >= i) ~> (pool.written[i] = 1)

====
